---- MODULE Spec2Model ----
(***************************************************************************)
(* GET /api/users: the paginated multi-scope query engine.                 *)
(*                                                                         *)
(* Three versions of the handler are modelled side by side:                *)
(*   variant "users"   = src/api/users.js                                  *)
(*   variant "part000" = src/unnamed/part_000                              *)
(*   variant "part002" = src/unnamed/part_002 (one collection, no scope)   *)
(* The document store is modelled by what the handler asks of it: ordered  *)
(* range scans (orderBy / startAfter / limit / get) and point lookups.     *)
(***************************************************************************)
EXTENDS Integers, Sequences, FiniteSets, TLC

\* ------------------------------------------------------------------------
\* Bounds of the model
\* ------------------------------------------------------------------------
\* document ids 1..MaxId exist (or not) in the fixed collection
MaxId == 2
\* requested page sizes range over 1..MaxPageSize
MaxPageSize == 2
\* a client follows at most MaxFollow cursors in one chain of pages
MaxFollow == 3

\* ------------------------------------------------------------------------
\* Program constants
\* ------------------------------------------------------------------------
MAX_PAGES == 500
PAGE_SIZE_CAP == 100
DEFAULT_PAGE_SIZE == 25

ALLOWED_SORT == {"createdAt", "__name__", "email", "name"}

Variants == {"users", "part000"}

\* ------------------------------------------------------------------------
\* Values (store values and JavaScript values share one representation)
\* ------------------------------------------------------------------------
\* a field that is not there / JavaScript undefined
Missing == [t |-> "missing", v |-> 0]
NullV == [t |-> "null", v |-> 0]
BoolV(b) == [t |-> "boolean", v |-> IF b THEN 1 ELSE 0]
NumV(n) == [t |-> "number", v |-> n]
\* a store Timestamp object (has toDate)
Ts(n) == [t |-> "timestamp", v |-> n]
\* a string; strings are numbered in their lexicographic order, 0 is ""
Str(n) == [t |-> "string", v |-> n]
\* a plain array / plain object that is not a cursor payload
ArrV == [t |-> "array", v |-> 0]
\* the plain object {_seconds: n, _nanoseconds: 0}
MapV(n) == [t |-> "map", v |-> n]

\* Collections named "users": the fixed one (artifacts/{id}/users), the
\* public one (artifacts/{id}/public/{doc}/users).
Cols == {"direct", "public"}
\* fully-qualified paths compare segment by segment: ".../public/..." sorts
\* before ".../users/..."
ColRank(c) == IF c = "public" THEN 1 ELSE 2

\* a document path: <<collection, id>>
Paths == {<<"direct", i>> : i \in 1..MaxId} \cup {<<"public", 1>>}

\* a string holding the document path p
PathStr(p) == [t |-> "string", v |-> 100 * ColRank(p[1]) + p[2]]
IsPathStr(x) == x.t = "string" /\ x.v > 100
PathOfStr(x) ==
  IF x.v \div 100 = 1 THEN <<"public", x.v - 100>> ELSE <<"direct", x.v - 200>>
\* a DocumentReference
Ref(p) == [t |-> "reference", v |-> 100 * ColRank(p[1]) + p[2]]
PathOfRef(r) ==
  IF r.v \div 100 = 1 THEN <<"public", r.v - 100>> ELSE <<"direct", r.v - 200>>

\* the store's order of value types
TypeRank(ty) ==
  CASE ty = "null" -> 0
    [] ty = "boolean" -> 1
    [] ty = "number" -> 2
    [] ty = "timestamp" -> 3
    [] ty = "string" -> 4
    [] ty = "reference" -> 6
    [] ty = "array" -> 8
    [] ty = "map" -> 9
    [] ty = "object" -> 9
    [] OTHER -> 10

CmpInt(a, b) == IF a < b THEN -1 ELSE IF a > b THEN 1 ELSE 0

\* -1, 0, 1: how the store compares two values in ascending order
CmpVal(a, b) ==
  IF TypeRank(a.t) # TypeRank(b.t)
    THEN CmpInt(TypeRank(a.t), TypeRank(b.t))
    ELSE CmpInt(a.v, b.v)

\* JavaScript truthiness
Truthy(x) ==
  ~ (x.t \in {"missing", "null"} \/ (x.t \in {"boolean", "number", "string"} /\ x.v = 0))

\* x ?? d
Coalesce(x, d) == IF x.t \in {"missing", "null"} THEN d ELSE x
\* x || d
OrElse(x, d) == IF Truthy(x) THEN x ELSE d

\* ------------------------------------------------------------------------
\* State
\* ------------------------------------------------------------------------
VARIABLES
  store,           \* the users documents: path -> document (exists, fields)
  failing,         \* what currently fails: auxiliary stat queries, the
                   \* store connection, the token lookup, a page query
  backendDup,      \* what the backend does with an ordering that names a
                   \* field twice: untested, accepts, rejects
  menu,            \* which requests a client session may start from
  req,             \* the request being handled (req.method, req.query and
                   \* the variant)
  pc,              \* the handler's position: idle, scan, respond, done
  items,           \* handler local: the mapped users accumulated so far
  scanned,         \* the paths of the documents the page queries returned
  cursorDoc,       \* handler local (single, all=1): last snapshot
  cursorVals,      \* handler local (group, all=1): {sortVal, nameKey}
  pageIndex,       \* handler local (all=1): the loop counter
  fault,           \* what reached the handler's catch: "", "input", "store",
                   \* "query" or "map"
  nextPageToken,   \* handler local
  nextPageCursor,  \* handler local
  resp,            \* the response sent (status, body)
  phase,           \* the client's position in its session
  allResp,         \* the client's record of the accumulate-all response
  allScanned,      \* the paths behind allResp
  firstResp,       \* the client's record of the first page (no cursor)
  concat,          \* the paths of the pages the client has consumed
  nfollow,         \* the number of cursors the client has followed
  env,             \* the process: which admin module it runs and what its
                   \* environment holds for the service account
  apps,            \* the process: the apps initializeApp has registered
  handle,          \* what getAdminDb gave each caller: none yet, a handle on
                   \* an app, or a throw
  other,           \* a second invocation of the handler, in the same process
                   \* at the same time: its request and its locals
  mapping,         \* the page being mapped: its documents, the position of
                   \* the record whose stats are awaited, the results so far
  inflight         \* the auxiliary queries issued and not settled yet

\* the process-wide state of the admin module
adminVars == <<env, apps, handle>>

\* what the actions of one users request leave alone
\* the mapping of one page, step by step
statVars == <<mapping, inflight>>

aside == <<adminVars, other, statVars>>

\* the store, one users request and the session of its client
sessionVars ==
  <<store, failing, backendDup, menu, req, pc, items, scanned, cursorDoc, cursorVals,
    pageIndex, fault, nextPageToken, nextPageCursor, resp, phase, allResp, allScanned,
    firstResp, concat, nfollow>>

vars == <<sessionVars, aside>>

\* ------------------------------------------------------------------------
\* The document store
\* ------------------------------------------------------------------------
\* what doc.data() / snapshot.get(field) can see
DataFields == {"createdAt", "email", "name", "userName", "displayName", "phone",
               "telefone", "source", "origem", "type", "polo", "internal"}

NoDoc == [f \in DataFields \cup {"exists"} |-> IF f = "exists" THEN FALSE ELSE Missing]

\* The documents the store may hold: which exist, and what createdAt each
\* has, varies; the other fields are fixed per path. Strings: 1 "A", 2 "a",
\* 3 "ab", 4 "b" (see TextOf).
DocAt(p, ca) ==
  [f \in DataFields \cup {"exists"} |->
     CASE f = "exists" -> TRUE
       [] f = "createdAt" -> ca
       [] f = "email" -> IF p = <<"direct", 2>> THEN NullV
                         ELSE IF p[2] = 1 THEN Str(2) ELSE Str(4)
       [] f = "name" -> IF p = <<"direct", 1>> THEN Str(1)
                        ELSE IF p = <<"direct", 2>> THEN Missing
                        ELSE IF p[1] = "public" THEN Str(3) ELSE Str(4)
       [] f = "userName" -> IF p = <<"direct", 2>> THEN Str(3) ELSE Missing
       [] f = "telefone" -> IF p[1] = "direct" THEN Str(4) ELSE Missing
       [] f = "origem" -> IF p[1] = "public" THEN Str(1) ELSE Missing
       [] f = "type" -> IF p[1] = "public" THEN Str(2) ELSE Missing
       [] f = "internal" -> Str(3)
       [] OTHER -> Missing]

CreatedAtValues == {Missing, Ts(1), Ts(2)}

\* DocumentSnapshot of the document at p as the store holds it now
\* the value of field f in document data d, undefined when d has no f
Field(d, f) == IF f \in DOMAIN d THEN d[f] ELSE Missing

\* a document with no fields
EmptyDoc == [exists |-> TRUE]

SnapOf(p) == [ref |-> p, exists |-> store[p].exists, data |-> store[p]]
NoSnapshot == [ref |-> <<"direct", 0>>, exists |-> FALSE, data |-> NoDoc]

\* snapshot.get(field): undefined unless the document data has the field
SnapGet(s, f) == IF f \in DataFields THEN Field(s.data, f) ELSE Missing

\* CollectionReference.doc(id): throws unless id is a non-empty string that
\* names a document of the collection (one path segment)
ColDocOk(x) == x.t = "string" /\ x.v >= 1 /\ x.v < 50

\* db.doc(path): throws unless path is a string with an even number of
\* segments
DbDocOk(x) == x.t = "string" /\ x.v >= 50
DbDoc(x) == [t |-> "reference", v |-> x.v]

\* A query: the collection (or "group"), the orderBy clauses, the limit and
\* the startAfter position (<<>> when there is none); ok = FALSE once
\* building it has thrown
NewQuery(from) == [ok |-> TRUE, from |-> from, orders |-> <<>>, limit |-> 0, start |-> <<>>]

OrderBy(q, f, d) == [q EXCEPT !.orders = Append(@, <<f, d>>)]
\* faulty variant: a limit of one more
LimitPlusOne(q, n) == [q EXCEPT !.limit = n + 1]
Limit(q, n) == [q EXCEPT !.limit = n]

HasNameOrder(orders) == \E i \in 1..Len(orders) : orders[i][1] = "__name__"

\* the ordering the store applies: the orderBy clauses, and the document
\* name in the direction of the last clause when no clause orders by it
FullOrders(orders) ==
  IF HasNameOrder(orders) THEN orders
  ELSE Append(orders, <<"__name__", orders[Len(orders)][2]>>)

\* startAfter(snapshot): the position is the snapshot's values for the full
\* ordering; throws when the snapshot lacks an ordered field
StartAfterSnap(q, s) ==
  LET fo == FullOrders(q.orders)
      val(i) == IF fo[i][1] = "__name__" THEN Ref(s.ref) ELSE SnapGet(s, fo[i][1])
  IN  IF \E i \in 1..Len(fo) : val(i).t = "missing"
        THEN [q EXCEPT !.ok = FALSE]
        ELSE [q EXCEPT !.orders = fo, !.start = [i \in 1..Len(fo) |-> val(i)]]

\* what the value given for a __name__ clause must be: a DocumentReference
\* or a string that is a document path
NameValueOk(x) == x.t = "reference" \/ (x.t = "string" /\ x.v >= 50)
NameValue(x) == [t |-> "reference", v |-> x.v]

\* startAfter(v1, ..., vk): throws when there are more values than clauses
\* or a value for a __name__ clause is no reference
StartAfterVals(q, vals) ==
  IF Len(vals) > Len(q.orders)
     \/ \E i \in 1..Len(vals) : q.orders[i][1] = "__name__" /\ ~ NameValueOk(vals[i])
    THEN [q EXCEPT !.ok = FALSE]
    ELSE [q EXCEPT !.start =
            [i \in 1..Len(vals) |->
               IF q.orders[i][1] = "__name__" THEN NameValue(vals[i]) ELSE vals[i]]]

\* two clauses on the same field
DupOrders(q) ==
  \E i, j \in 1..Len(q.orders) : i < j /\ q.orders[i][1] = q.orders[j][1]

\* the value a document has for an ordered field
KeyVal(p, f) == IF f = "__name__" THEN Ref(p) ELSE Field(store[p], f)

\* -1, 0, 1: the query order of value tuples a and b on clauses i..n
RECURSIVE CmpKeys(_, _, _, _, _)
CmpKeys(orders, a, b, i, n) ==
  IF i > n THEN 0
  ELSE LET c == CmpVal(a[i], b[i])
           d == IF orders[i][2] = "asc" THEN c ELSE 0 - c
       IN  IF d # 0 THEN d ELSE CmpKeys(orders, a, b, i + 1, n)

DocKey(orders, p) == [i \in 1..Len(orders) |-> KeyVal(p, orders[i][1])]

\* the documents a query ranges over: in the collection (any users
\* collection for a group query), holding every ordered field, and
\* strictly after the start position
Matching(q) ==
  LET fo == FullOrders(q.orders)
  IN  {p \in DOMAIN store :
         /\ store[p].exists
         /\ (q.from = "group" \/ p[1] = q.from)
         /\ \A i \in 1..Len(fo) : KeyVal(p, fo[i][1]).t # "missing"
         /\ (Len(q.start) = 0
             \/ CmpKeys(fo, DocKey(fo, p), q.start, 1, Len(q.start)) > 0)}

\* the first n documents of S in the order fo
RECURSIVE SortDocs(_, _, _)
SortDocs(S, fo, n) ==
  IF S = {} \/ n <= 0 THEN <<>>
  ELSE LET m == CHOOSE x \in S : \A y \in S :
                  CmpKeys(fo, DocKey(fo, x), DocKey(fo, y), 1, Len(fo)) <= 0
       IN  <<m>> \o SortDocs(S \ {m}, fo, n - 1)

\* query.get(): the snapshots of the first `limit` matching documents in
\* query order. The backend rejects a negative limit, and rejects or
\* accepts (dup) an ordering that names a field twice.
GetOk(q, dup) == q.limit >= 0 /\ (DupOrders(q) => dup = "accepts")
GetDocs(q) ==
  LET page == SortDocs(Matching(q), FullOrders(q.orders), q.limit)
  IN  [i \in 1..Len(page) |-> SnapOf(page[i])]

\* ------------------------------------------------------------------------
\* Stat fan-out and record mapping
\* ------------------------------------------------------------------------
\* The auxiliary collections (user ids are the ids of the users documents)
Agendamentos == {[k |-> 1, idsAlunos |-> {1, 2}], [k |-> 2, idsAlunos |-> {1}]}
Historico == {[k |-> 1, userId |-> 1, status |-> "pendente"],
              [k |-> 2, userId |-> 1, status |-> "concluido"],
              [k |-> 3, userId |-> 2, status |-> "pendente"]}

AuxQueries == {"ag", "histAll", "histPend"}

\* the size of each auxiliary query's result when it completes
AuxSize(query, userId) ==
  CASE query = "ag" ->
         Cardinality({a \in Agendamentos : userId \in a.idsAlunos})
    [] query = "histAll" ->
         Cardinality({h \in Historico : h.userId = userId})
    [] OTHER ->
         Cardinality({h \in Historico : h.userId = userId /\ h.status = "pendente"})

\* fetchStatsForUser: the three queries are joined by Promise.all inside one
\* try; the counts are assigned only after all three have completed
fetchStatsForUser(fails, userId) ==
  IF fails \cap AuxQueries = {}
    THEN [agCount |-> NumV(AuxSize("ag", userId)),
          histTotal |-> NumV(AuxSize("histAll", userId)),
          histPend |-> NumV(AuxSize("histPend", userId))]
    ELSE [agCount |-> NumV(0), histTotal |-> NumV(0), histPend |-> NumV(0)]

\* faulty variant: fetchStatsForUser rejects when one of its queries has failed
fetchStatsRejectsOnFailure(fails, userId) == fails \cap AuxQueries # {}

\* whether fetchStatsForUser rejects: its catch swallows every failure
fetchStatsRejects(fails, userId) == FALSE

\* an ISO-8601 string of instant n
IsoStr(n) == [t |-> "isostring", v |-> n]

\* normalizeCreatedAt: a Timestamp or a parseable date string becomes an
\* ISO string, anything else null (date strings are the strings 1..9)
normalizeCreatedAt(raw) ==
  IF raw.t = "timestamp" THEN IsoStr(raw.v)
  ELSE IF raw.t = "string" /\ raw.v \in 1..9 THEN IsoStr(raw.v)
  ELSE NullV

\* mapDocToUser
mapDocToUser(fails, doc) ==
  LET data == doc.data
      id == doc.ref[2]
      st == fetchStatsForUser(fails, id)
      get(f) == Field(data, f)
      \* ...data: the stored fields no later member overrides
      rest == DOMAIN data \cap {"userName", "displayName", "telefone", "origem", "internal"}
  IN  [id |-> Str(id),
       email |-> OrElse(get("email"), NullV),
       name |-> OrElse(get("name"), OrElse(get("userName"), OrElse(get("displayName"), NullV))),
       phone |-> OrElse(get("phone"), OrElse(get("telefone"), NullV)),
       source |-> OrElse(get("source"), OrElse(get("origem"), NullV)),
       type |-> OrElse(get("type"), NullV),
       polo |-> OrElse(get("polo"), NullV),
       createdAt |-> normalizeCreatedAt(get("createdAt")),
       agCount |-> st.agCount,
       histTotal |-> st.histTotal,
       histPend |-> st.histPend]
      @@ [f \in rest |-> data[f]]

\* for (const d of snap.docs) items.push(await mapDocToUser(db, d))
MapDocs(fails, docs) == [i \in 1..Len(docs) |-> mapDocToUser(fails, docs[i])]
MapThrows(fails, docs) ==
  \E i \in 1..Len(docs) : fetchStatsRejects(fails, docs[i].ref[2])

\* faulty variant: the intermediate record is sent as it is
projectUserUnprojected(u) == u

\* projectUser
projectUser(u) ==
  [id |-> u.id,
   email |-> Coalesce(u.email, NullV),
   name |-> Coalesce(u.name, NullV),
   phone |-> Coalesce(u.phone, NullV),
   source |-> Coalesce(u.source, NullV),
   createdAt |-> Coalesce(u.createdAt, NullV),
   agCount |-> Coalesce(u.agCount, NumV(0)),
   histTotal |-> Coalesce(u.histTotal, NumV(0)),
   histPend |-> Coalesce(u.histPend, NumV(0)),
   type |-> Coalesce(u.type, NullV),
   polo |-> Coalesce(u.polo, NullV)]

\* ------------------------------------------------------------------------
\* Cursor codec (scope=group)
\* ------------------------------------------------------------------------
\* JSON.stringify of a value: a Timestamp has no toJSON, so it is written
\* as the plain object of its own fields; undefined members are dropped
JsonOf(x) == IF x.t = "timestamp" THEN MapV(x.v) ELSE x

\* The wire form of a cursor is a string: "" (none), text that is not the
\* base64url of JSON text, or the base64url of the JSON text of js
NoCursor == Str(0)
Garbage == [t |-> "string", v |-> 1, enc |-> "garbage"]
\* a cursor payload object {sortVal, nameKey}; a member that is Missing is
\* not there
CursorObj(sv, nk) == [t |-> "object", sortVal |-> sv, nameKey |-> nk]

\* encodeCursor
encodeCursor(obj) ==
  [t |-> "string", v |-> 1, enc |-> "json",
   js |-> IF obj.t = "object"
            THEN CursorObj(JsonOf(obj.sortVal), JsonOf(obj.nameKey))
            ELSE JsonOf(obj)]

\* decodeCursor: null when the text does not parse
decodeCursor(s) == IF "enc" \in DOMAIN s /\ s.enc = "json" THEN s.js ELSE NullV

\* `key in cur`: a TypeError when cur is a primitive
InThrows(cur) == cur.t \in {"boolean", "number", "string"}
HasKey(cur, key) ==
  /\ cur.t = "object"
  /\ IF key = "sortVal" THEN cur.sortVal.t # "missing" ELSE cur.nameKey.t # "missing"

\* ------------------------------------------------------------------------
\* Request parameters
\* ------------------------------------------------------------------------
\* faulty variant: no clamp
Uncapped(a, b) == b

Min(a, b) == IF a < b THEN a ELSE b

\* parseInt(req.query.pageSize || "25", 10) clamped: a pageSize that is
\* absent, empty or not a number gives 25
\* a query parameter that is the decimal text of an integer ("number"), or
\* such a text followed by other characters ("numprefix": "2abc", "2.7")
StartsWithInteger(x) == x.t \in {"number", "numprefix"}

PageSizeOf(r) ==
  LET rawPageSize == IF StartsWithInteger(r.pageSize) THEN r.pageSize.v
                     ELSE DEFAULT_PAGE_SIZE
  IN  Min(PAGE_SIZE_CAP, rawPageSize)

DefaultSort(variant) == IF variant = "part000" THEN "__name__" ELSE "createdAt"

SortFieldOf(r) ==
  LET requestedSort == IF r.sortField = "" THEN DefaultSort(r.variant) ELSE r.sortField
  IN  IF requestedSort \in ALLOWED_SORT THEN requestedSort ELSE "__name__"

ToLowerCase(str) ==
  IF str \in {"ASC", "Asc"} THEN "asc" ELSE IF str = "DESC" THEN "desc" ELSE str

\* a parameter given twice reaches the handler as an array, which has no
\* toLowerCase: (req.query.sortDir || "desc").toLowerCase() throws
RepeatedParam == "[asc,desc]"
SortDirThrows(r) == r.sortDir = RepeatedParam

\* faulty variant: the direction is always ascending
SortDirAscending(r) == "asc"

SortDirOf(r) ==
  IF ToLowerCase(IF r.sortDir = "" THEN "desc" ELSE r.sortDir) = "asc" THEN "asc" ELSE "desc"

FetchAllOf(r) == r.all = "1"

ScopeOf(r) ==
  IF r.variant = "part002" THEN "single"
  ELSE IF r.variant = "users"
    THEN (IF (IF r.scope = "" THEN "single" ELSE r.scope) = "group" THEN "group" ELSE "single")
    ELSE (IF (IF r.scope = "" THEN "group" ELSE r.scope) = "single" THEN "single" ELSE "group")

\* the fixed collection of scope=single: getUsersCollection in part_000
\* (the publicDocId parameter, or else PUBLIC_DOC_ID of the environment,
\* selects artifacts/{artifactId}/public/{id}/users),
\* artifacts/registro-itec-dcbc4/users in users.js
UsersColSingle(r) ==
  IF r.variant = "part000"
     /\ (IF r.publicDocId # "" THEN r.publicDocId ELSE env.PUBLIC_DOC_ID) # ""
    THEN "public" ELSE "direct"

\* ------------------------------------------------------------------------
\* Text (the in-memory filter)
\* ------------------------------------------------------------------------
\* The characters 0 " ", 1 "A", 2 "B", 3 "a", 4 "b"; the strings by number
TextOf(n) ==
  CASE n = 0 -> <<>>
    [] n = 1 -> <<1>>
    [] n = 2 -> <<3>>
    [] n = 3 -> <<3, 4>>
    [] n = 6 -> <<0, 1, 2, 0>>
    [] n = 7 -> <<0>>
    [] OTHER -> <<4>>

LowerText(s) == [i \in 1..Len(s) |-> IF s[i] \in {1, 2} THEN s[i] + 2 ELSE s[i]]

\* .trim()
RECURSIVE Trim(_)
Trim(s) ==
  IF Len(s) = 0 THEN s
  ELSE IF s[1] = 0 THEN Trim(Tail(s))
  ELSE IF s[Len(s)] = 0 THEN Trim(SubSeq(s, 1, Len(s) - 1))
  ELSE s

\* hay.includes(needle)
Includes(hay, needle) ==
  \E i \in 0..(Len(hay) - Len(needle)) :
    \A j \in 1..Len(needle) : hay[i + j] = needle[j]

\* (req.query.q || "").toString().trim().toLowerCase()
QTextOf(r) == LowerText(Trim(TextOf(r.q)))

\* String(v || "").toLowerCase()
FieldText(v) == LowerText(TextOf(OrElse(v, Str(0)).v))

\* faulty variant: only the email is searched
KeepsUserByEmail(u, qtext) == Includes(FieldText(u.email), qtext)

KeepsUser(u, qtext) ==
  \E v \in {u.email, u.name, u.phone, u.source} : Includes(FieldText(v), qtext)

\* faulty variant: the records kept come out last first
RECURSIVE FilterUsersLastFirst(_, _)
FilterUsersLastFirst(us, qtext) ==
  IF Len(us) = 0 THEN <<>>
  ELSE FilterUsersLastFirst(Tail(us), qtext)
       \o (IF KeepsUser(us[1], qtext) THEN <<us[1]>> ELSE <<>>)

RECURSIVE FilterUsers(_, _)
FilterUsers(us, qtext) ==
  IF Len(us) = 0 THEN <<>>
  ELSE (IF KeepsUser(us[1], qtext) THEN <<us[1]>> ELSE <<>>)
       \o FilterUsers(Tail(us), qtext)

\* ------------------------------------------------------------------------
\* The handler
\* ------------------------------------------------------------------------
\* usersColSingle.doc(id).get()
Lookup(col, id) ==
  IF <<col, id>> \in DOMAIN store THEN SnapOf(<<col, id>>)
  ELSE [ref |-> <<col, id>>, exists |-> FALSE, data |-> NoDoc]

\* faulty variant: with a text filter the page query asks for one record
SingleQueryShortWhenFiltered(r) ==
  Limit(OrderBy(NewQuery(UsersColSingle(r)), SortFieldOf(r), SortDirOf(r)),
        IF Len(QTextOf(r)) > 0 THEN 1 ELSE PageSizeOf(r))

\* usersColSingle.orderBy(sortField, sortDir).limit(pageSize)
SingleQuery(r) ==
  Limit(OrderBy(NewQuery(UsersColSingle(r)), SortFieldOf(r), SortDirOf(r)), PageSizeOf(r))

\* faulty variant: scope=single resumes from a pageCursor as well
SinglePageQueryReadingCursor(r) ==
  LET q == SingleQuery(r)
      cur == decodeCursor(r.pageCursor)
  IN  IF Truthy(r.pageCursor) /\ Truthy(cur) /\ ~ InThrows(cur) /\ HasKey(cur, "nameKey")
        THEN [q EXCEPT !.ok = DbDocOk(cur.nameKey),
                       !.start = IF DbDocOk(cur.nameKey) THEN <<DbDoc(cur.nameKey)>>
                                 ELSE <<>>]
      ELSE IF ~ Truthy(r.pageToken) THEN q
      ELSE IF ~ ColDocOk(r.pageToken) THEN [q EXCEPT !.ok = FALSE]
      ELSE LET tokenSnap == Lookup(UsersColSingle(r), r.pageToken.v)
           IN  IF tokenSnap.exists THEN StartAfterSnap(q, tokenSnap) ELSE q

\* scope=single, one page: the query after the pageToken lookup. doc()
\* throws outside any try; a token that names no document is dropped
SinglePageQuery(r) ==
  LET q == SingleQuery(r)
  IN  IF ~ Truthy(r.pageToken) THEN q
      ELSE IF ~ ColDocOk(r.pageToken) THEN [q EXCEPT !.ok = FALSE]
      ELSE LET tokenSnap == Lookup(UsersColSingle(r), r.pageToken.v)
           IN  IF tokenSnap.exists THEN StartAfterSnap(q, tokenSnap) ELSE q

\* faulty variant: the group query ranges over the fixed collection only
GroupQueryOfOneParent(r) ==
  LET q == OrderBy(NewQuery("direct"), SortFieldOf(r), SortDirOf(r))
  IN  Limit(OrderBy(q, "__name__", SortDirOf(r)), PageSizeOf(r))

\* the group query: users.js always chains orderBy("__name__"); part_000
\* (buildGroupQuery) only when the sort field is not "__name__"
GroupQuery(r) ==
  LET q == OrderBy(NewQuery("group"), SortFieldOf(r), SortDirOf(r))
  IN  IF r.variant = "users" \/ SortFieldOf(r) # "__name__"
        THEN Limit(OrderBy(q, "__name__", SortDirOf(r)), PageSizeOf(r))
        ELSE Limit(q, PageSizeOf(r))

\* q.startAfter(...) of the group scope, from a cursor payload
GroupStartAfter(r, q, cur) ==
  IF ~ DbDocOk(cur.nameKey) THEN [q EXCEPT !.ok = FALSE]
  ELSE IF r.variant = "users"
    THEN StartAfterVals(q, <<cur.sortVal, DbDoc(cur.nameKey)>>)
  ELSE IF SortFieldOf(r) = "__name__"
    THEN StartAfterVals(q, <<DbDoc(cur.nameKey)>>)
  ELSE StartAfterVals(q, <<Coalesce(cur.sortVal, NullV), DbDoc(cur.nameKey)>>)

\* the keys a decoded cursor must have to be used
CursorUsable(r, cur) ==
  IF r.variant = "users" THEN HasKey(cur, "sortVal") /\ HasKey(cur, "nameKey")
  ELSE HasKey(cur, "nameKey")

\* scope=group, one page: the query after the pageCursor is applied. The
\* `in` test is outside the try, startAfter and db.doc are inside it
GroupPageQuery(r) ==
  LET q == GroupQuery(r)
      cur == decodeCursor(r.pageCursor)
  IN  IF ~ Truthy(r.pageCursor) THEN q
      ELSE IF ~ Truthy(cur) THEN q
      ELSE IF InThrows(cur) THEN [q EXCEPT !.ok = FALSE]
      ELSE IF ~ CursorUsable(r, cur) THEN q
      ELSE LET q2 == GroupStartAfter(r, q, cur)
           IN  IF q2.ok THEN q2 ELSE q

\* {sortVal, nameKey} of the last document of a page
CursorOfLast(r, last) ==
  CursorObj(IF r.variant = "part000" /\ SortFieldOf(r) = "__name__" THEN NullV
            ELSE Coalesce(SnapGet(last, SortFieldOf(r)), NullV),
            PathStr(last.ref))

\* the request and the locals of the handler invocation
Self ==
  [req |-> req, pc |-> pc, items |-> items, scanned |-> scanned,
   cursorDoc |-> cursorDoc, cursorVals |-> cursorVals, pageIndex |-> pageIndex,
   fault |-> fault, nextPageToken |-> nextPageToken,
   nextPageCursor |-> nextPageCursor, resp |-> resp]

\* faulty variant: the first query of accumulate-all resumes from the
\* incoming cursor
PageQueryForResumingScan(h) ==
  IF ScopeOf(h.req) = "single"
    THEN IF FetchAllOf(h.req) /\ h.cursorDoc # NoSnapshot
           THEN StartAfterSnap(SingleQuery(h.req), h.cursorDoc)
           ELSE SinglePageQuery(h.req)
    ELSE IF FetchAllOf(h.req) /\ Truthy(h.cursorVals)
           THEN GroupStartAfter(h.req, GroupQuery(h.req), h.cursorVals)
           ELSE GroupPageQuery(h.req)

\* the query an invocation h of the handler issues next, from its position
PageQueryFor(h) ==
  IF ScopeOf(h.req) = "single"
    THEN IF FetchAllOf(h.req)
           THEN (IF h.cursorDoc # NoSnapshot
                   THEN StartAfterSnap(SingleQuery(h.req), h.cursorDoc)
                   ELSE SingleQuery(h.req))
           ELSE SinglePageQuery(h.req)
    ELSE IF FetchAllOf(h.req)
           THEN (IF Truthy(h.cursorVals)
                   THEN GroupStartAfter(h.req, GroupQuery(h.req), h.cursorVals)
                   ELSE GroupQuery(h.req))
           ELSE GroupPageQuery(h.req)

PageQueryOf == PageQueryFor(Self)

\* faulty variant: a token after every page that is not empty
NextPageTokenAlways(docs, pageSize) ==
  IF Len(docs) # 0 THEN Str(docs[Len(docs)].ref[2]) ELSE NullV

\* the outgoing cursors of a single page: only after a full page
NextPageTokenOf(docs, pageSize) ==
  IF Len(docs) = pageSize /\ Len(docs) # 0 THEN Str(docs[Len(docs)].ref[2]) ELSE NullV

NextPageCursorOf(r, docs, pageSize) ==
  IF Len(docs) = pageSize /\ Len(docs) # 0
    THEN encodeCursor(CursorOfLast(r, docs[Len(docs)])) ELSE NullV

\* part_002: lastDoc ? lastDoc.id : null, after a page of any length
NextPageTokenOfLastDoc(docs) ==
  IF Len(docs) # 0 THEN Str(docs[Len(docs)].ref[2]) ELSE NullV

\* faulty variant: the error response carries what was accumulated
ServerErrorWithItems ==
  [status |-> 500,
   body |-> [error |-> "server_error",
             items |-> [i \in 1..Len(items) |-> projectUser(items[i])]]]

ServerError == [status |-> 500, body |-> [error |-> "server_error"]]

\* What can be unavailable in the store: the connection (getAdminDb throws),
\* the point lookup of the pageToken, the first and the second page query
\* of a request.
Outages == {"connect", "lookup", "page1", "page2"}

PageOutage(k) == IF k = 1 THEN "page1" ELSE IF k = 2 THEN "page2" ELSE "page>2"

\* whether the handler reads the pageToken's document before its page query
LooksUp(r) ==
  ScopeOf(r) = "single" /\ ~ FetchAllOf(r) /\ Truthy(r.pageToken)
    /\ ColDocOk(r.pageToken)

\* what reaches the handler's catch on the way to page k of request r, in
\* the order the handler meets it; "" when the page is read and mapped
FaultOf(fails, r, q, dup, k) ==
  IF "connect" \in fails THEN "store"
  ELSE IF SortDirThrows(r) THEN "input"
  ELSE IF "lookup" \in fails /\ LooksUp(r) THEN "store"
  ELSE IF ~ q.ok THEN "query"
  ELSE IF PageOutage(k) \in fails THEN "store"
  ELSE IF ~ GetOk(q, dup) THEN "query"
  ELSE IF MapThrows(fails, GetDocs(q)) THEN "map"
  ELSE ""

RefsOf(docs) == [i \in 1..Len(docs) |-> docs[i].ref]

\* faulty variant: the loop ends on an empty page only
LoopContinuesUntilEmpty(size, pageSize, pages) == size > 0

\* whether the accumulate-all loop goes round again after a page of `size`
\* documents, `pages` full pages having come before it
LoopContinues(size, pageSize, pages) == size >= pageSize /\ pages + 1 < MAX_PAGES

\* One page of invocation h: build the query, run it, map its documents,
\* move the cursor. Anything thrown reaches the handler's catch. The result
\* is the invocation's locals after the page.
PageStep(h, fails, dup) ==
  LET r == h.req
      q == PageQueryFor(h)
      pageSize == PageSizeOf(r)
      single == ScopeOf(r) = "single"
      thrown == FaultOf(fails, r, q, dup, h.pageIndex + 1)
  IN  IF thrown # ""
        THEN [h EXCEPT !.pc = "done", !.fault = thrown, !.resp = ServerError]
        ELSE
          LET docs == GetDocs(q)
              size == Len(docs)
              last == docs[size]
          IN  IF FetchAllOf(r)
                THEN IF size = 0
                       THEN [h EXCEPT !.pc = "respond"]
                       ELSE [h EXCEPT
                               !.items = @ \o MapDocs(fails, docs),
                               !.scanned = @ \o RefsOf(docs),
                               !.cursorDoc = IF single THEN last ELSE @,
                               !.cursorVals = IF single THEN @ ELSE CursorOfLast(r, last),
                               !.pageIndex = IF size < pageSize THEN @ ELSE @ + 1,
                               !.pc = IF LoopContinues(size, pageSize, h.pageIndex)
                                        THEN "scan" ELSE "respond"]
                ELSE [h EXCEPT
                        !.items = @ \o MapDocs(fails, docs),
                        !.scanned = @ \o RefsOf(docs),
                        !.nextPageToken =
                          IF r.variant = "part002" THEN NextPageTokenOfLastDoc(docs)
                          ELSE IF single THEN NextPageTokenOf(docs, pageSize)
                          ELSE NullV,
                        !.nextPageCursor = IF single THEN NullV
                                           ELSE NextPageCursorOf(r, docs, pageSize),
                        !.pc = "respond"]

\* what the backend does with the query of h: it settles once, at the first
\* query that names a field twice
DupChoices(h, known) ==
  LET q == PageQueryFor(h)
  IN  IF q.ok /\ DupOrders(q) /\ known = "untested"
        THEN {"accepts", "rejects"} ELSE {known}

FetchPage ==
  /\ UNCHANGED aside
  /\ pc = "scan"
  /\ \E dup \in DupChoices(Self, backendDup) :
       /\ backendDup' = dup
       /\ \E n \in {PageStep(Self, failing, dup)} :
            /\ pc' = n.pc
            /\ items' = n.items
            /\ scanned' = n.scanned
            /\ cursorDoc' = n.cursorDoc
            /\ cursorVals' = n.cursorVals
            /\ pageIndex' = n.pageIndex
            /\ fault' = n.fault
            /\ nextPageToken' = n.nextPageToken
            /\ nextPageCursor' = n.nextPageCursor
            /\ resp' = n.resp
  /\ UNCHANGED <<store, failing, menu, req, phase, allResp, allScanned, firstResp, concat,
                 nfollow>>

\* faulty variant: hasMore asks for a full page after the filter
ResponsePayloadOfFilteredPage ==
  LET qtext == QTextOf(req)
      filtered == IF Len(qtext) > 0 THEN FilterUsers(items, qtext) ELSE items
      scope == ScopeOf(req)
      full == Len(filtered) = PageSizeOf(req)
  IN  [items |-> [i \in 1..Len(filtered) |-> projectUser(filtered[i])],
       pageSize |-> PageSizeOf(req),
       returnedCount |-> Len(filtered),
       hasMore |-> full /\ (IF scope = "single" THEN Truthy(nextPageToken)
                            ELSE Truthy(nextPageCursor)),
       nextPageToken |-> IF scope = "single" THEN nextPageToken ELSE NullV,
       nextPageCursor |-> IF scope = "group" THEN nextPageCursor ELSE NullV,
       scope |-> scope]

\* faulty variant: a scan that ends on a full page says that there is more
ResponsePayloadOfCutScan ==
  LET qtext == QTextOf(req)
      filtered == IF Len(qtext) > 0 THEN FilterUsers(items, qtext) ELSE items
      scope == ScopeOf(req)
      cut == FetchAllOf(req) /\ Len(items) > 0
             /\ Len(items) = pageIndex * PageSizeOf(req)
  IN  [items |-> [i \in 1..Len(filtered) |-> projectUser(filtered[i])],
       pageSize |-> PageSizeOf(req),
       returnedCount |-> Len(filtered),
       hasMore |-> cut \/ (IF scope = "single" THEN Truthy(nextPageToken)
                           ELSE Truthy(nextPageCursor)),
       nextPageToken |-> IF scope = "single" THEN nextPageToken ELSE NullV,
       nextPageCursor |-> IF scope = "group" THEN nextPageCursor ELSE NullV,
       scope |-> scope]

\* the in-memory filter and the response payload of invocation h
PayloadFor(h) ==
  LET qtext == QTextOf(h.req)
      filtered == IF Len(qtext) > 0 THEN FilterUsers(h.items, qtext) ELSE h.items
      scope == ScopeOf(h.req)
  IN  IF h.req.variant = "part002"
        THEN [items |-> [i \in 1..Len(filtered) |-> projectUser(filtered[i])],
              nextPageToken |-> h.nextPageToken,
              pageSize |-> PageSizeOf(h.req),
              returnedCount |-> Len(filtered),
              hasMore |-> Truthy(h.nextPageToken)]
        ELSE [items |-> [i \in 1..Len(filtered) |-> projectUser(filtered[i])],
              pageSize |-> PageSizeOf(h.req),
              returnedCount |-> Len(filtered),
              hasMore |-> IF scope = "single" THEN Truthy(h.nextPageToken)
                          ELSE Truthy(h.nextPageCursor),
              nextPageToken |-> IF scope = "single" THEN h.nextPageToken ELSE NullV,
              nextPageCursor |-> IF scope = "group" THEN h.nextPageCursor ELSE NullV,
              scope |-> scope]

ResponsePayload == PayloadFor(Self)

Respond ==
  /\ UNCHANGED aside
  /\ pc = "respond"
  /\ resp' = [status |-> 200, body |-> ResponsePayload]
  /\ pc' = "done"
  /\ UNCHANGED <<store, failing, backendDup, menu, req, items, scanned, cursorDoc, cursorVals,
                 pageIndex, fault,
                 nextPageToken, nextPageCursor, phase, allResp, allScanned, firstResp,
                 concat, nfollow>>

\* ------------------------------------------------------------------------
\* The client: one accumulate-all request, then the same request page by
\* page, following the cursors, or once more with a cursor of its own
\* ------------------------------------------------------------------------
Stores ==
  {st \in [Paths -> {NoDoc} \cup {DocAt(p, ca) : p \in Paths, ca \in CreatedAtValues}] :
     \A p \in Paths : st[p].exists => \E ca \in CreatedAtValues : st[p] = DocAt(p, ca)}

SortFieldInputs == {"", "createdAt", "__name__", "email", "name"}
SortDirInputs == {"asc", "desc"}
ScopeInputs == {"single", "group"}
QInputs == {0, 6}

\* the requests a session starts from: every sort field and direction
\* without a text filter, and the default sort with a text filter
Requests ==
  [method : {"GET"},
   variant : Variants,
   pageSize : {NumV(n) : n \in 1..MaxPageSize},
   sortField : SortFieldInputs,
   sortDir : SortDirInputs,
   scope : ScopeInputs,
   q : {0},
   all : {"1"},
   pageToken : {Str(0)},
   pageCursor : {NoCursor},
   publicDocId : {""}]
  \cup
  [method : {"GET"},
   variant : Variants,
   pageSize : {NumV(n) : n \in 1..MaxPageSize},
   sortField : {""},
   sortDir : {""},
   scope : ScopeInputs,
   q : QInputs \ {0},
   all : {"1"},
   pageToken : {Str(0)},
   pageCursor : {NoCursor},
   publicDocId : {""}]

\* The scenario of 30 records in the fixed collection: identity key
\* descending, ten to a page
ScenarioPaths == {<<"direct", i>> : i \in 1..30} \cup {<<"public", 1>>}

ScenarioRequests ==
  [method : {"GET"},
   variant : Variants,
   pageSize : {NumV(10)},
   sortField : {"__name__"},
   sortDir : {"desc", "DESC", ""},
   scope : {"single"},
   q : {0},
   all : {"1"},
   pageToken : {Str(0)},
   pageCursor : {NoCursor},
   publicDocId : {""}]

\* Requests with parameters of every kind over one dataset
PageSizeInputs ==
  {Missing, Str(0), Str(3), [t |-> "numprefix", v |-> 2]}
  \cup {NumV(n) : n \in {0 - 1, 0, 1, 2, PAGE_SIZE_CAP, PAGE_SIZE_CAP + 1}}

ParamRequests ==
  [method : {"GET"},
   variant : Variants,
   pageSize : PageSizeInputs,
   sortField : SortFieldInputs \cup {"phone"},
   sortDir : {"", "asc", "ASC", "Asc", "desc", "DESC", "up", RepeatedParam},
   scope : ScopeInputs,
   q : {0},
   all : {"1"},
   pageToken : {Str(0)},
   pageCursor : {NoCursor},
   publicDocId : {""}]

\* The scenario of two parent paths with a users collection of
\* ParentLen records each
ParentLen == 5
TwoParentPaths == {<<c, i>> : c \in Cols, i \in 1..ParentLen}

\* by creation time in group scope, 100 to a page (the scenario) or
\* ParentLen to a page
TwoParentRequests ==
  [method : {"GET"},
   variant : Variants,
   pageSize : {NumV(PAGE_SIZE_CAP), NumV(ParentLen)},
   sortField : {"createdAt"},
   sortDir : {"asc", "desc", ""},
   scope : {"group"},
   q : {0},
   all : {"1"},
   pageToken : {Str(0)},
   pageCursor : {NoCursor},
   publicDocId : {""}]

\* A collection of more documents than the accumulate-all loop reads with
\* one document to a page
CeilingPaths == {<<"direct", i>> : i \in 1..(MAX_PAGES + 1)} \cup {<<"public", 1>>}

\* accumulate-all requests of one document to a page, in either scope
CeilingRequests ==
  [method : {"GET"},
   variant : Variants,
   pageSize : {NumV(1)},
   sortField : {"__name__"},
   sortDir : {"asc"},
   scope : ScopeInputs,
   q : {0},
   all : {"1"},
   pageToken : {Str(0)},
   pageCursor : {NoCursor},
   publicDocId : {""}]

\* the documents of a collection that an accumulate-all request reads to
\* its end: ShortLen of them
ShortLen == 4
ShortPaths == {<<"direct", i>> : i \in 1..ShortLen}

\* accumulate-all requests whose last page is full (two to a page) or short
\* (three to a page) in a collection of ShortLen documents
CompleteRequests ==
  [method : {"GET"},
   variant : Variants,
   pageSize : {NumV(2), NumV(3)},
   sortField : {"__name__"},
   sortDir : {"asc"},
   scope : ScopeInputs,
   q : {0},
   all : {"1"},
   pageToken : {Str(0)},
   pageCursor : {NoCursor},
   publicDocId : {""}]

\* the ids a path override may name
PublicDocIds == {"", "p1"}

\* requests with and without a path override
OverrideRequests ==
  [method : {"GET"},
   variant : Variants,
   pageSize : {NumV(1), NumV(2)},
   sortField : {"__name__", "email"},
   sortDir : {"asc"},
   scope : ScopeInputs,
   q : {0},
   all : {"", "1"},
   pageToken : {Str(0)},
   pageCursor : {NoCursor},
   publicDocId : PublicDocIds]

\* page tokens a client may send: ids (of documents that exist or not) and
\* the two-segment string "a/b"
ProbeTokens == {Str(i) : i \in 1..(MaxId + 1)} \cup {Str(50)}

\* page cursors a client may send
ProbeCursors ==
  {Garbage}
  \cup {encodeCursor(x) : x \in {NumV(5), Str(3), BoolV(TRUE), ArrV}}
  \cup {encodeCursor(CursorObj(Missing, Missing)),
        encodeCursor(CursorObj(NullV, Str(3))),
        encodeCursor(CursorObj(Missing, PathStr(<<"direct", 1>>))),
        encodeCursor(CursorObj(NullV, PathStr(<<"direct", 1>>)))}

\* first requests that carry cursors of either kind
CursorRequests ==
  [method : {"GET"},
   variant : Variants,
   pageSize : {NumV(1)},
   sortField : {"__name__", "createdAt"},
   sortDir : {"asc"},
   scope : ScopeInputs,
   q : {0},
   all : {"", "1"},
   pageToken : {Str(0)} \cup ProbeTokens,
   pageCursor : {NoCursor} \cup ProbeCursors,
   publicDocId : {""}]

\* requests to the handler of one collection, which reads no scope
NoScopeRequests ==
  [method : {"GET"},
   variant : {"part002"},
   pageSize : {NumV(n) : n \in 1..MaxPageSize},
   sortField : {"", "__name__", "email"},
   sortDir : SortDirInputs,
   scope : {""},
   q : QInputs,
   all : {"1"},
   pageToken : {Str(0)},
   pageCursor : {NoCursor},
   publicDocId : {""}]

Offered(m) ==
  CASE m = "scenario30" -> ScenarioRequests
    [] m = "noscope" -> NoScopeRequests
    [] m = "cursors" -> CursorRequests
    [] m = "override" -> OverrideRequests
    [] m = "twoparents" -> TwoParentRequests
    [] m = "ceiling" -> CeilingRequests
    [] m = "complete" -> CompleteRequests
    [] m = "params" -> ParamRequests
    [] OTHER -> Requests

NoResp == [status |-> 0, body |-> [error |-> ""]]

\* the handler's locals at the start of a request
StartHandler ==
  /\ pc' = "scan"
  /\ items' = <<>>
  /\ scanned' = <<>>
  /\ cursorDoc' = NoSnapshot
  /\ cursorVals' = NullV
  /\ pageIndex' = 0
  /\ fault' = ""
  /\ nextPageToken' = NullV
  /\ nextPageCursor' = NullV
  /\ resp' = NoResp

ClientAll ==
  /\ UNCHANGED aside
  /\ phase = "start"
  /\ pc = "idle"
  /\ \E r \in Offered(menu) : req' = r
  /\ phase' = "all"
  /\ StartHandler
  /\ UNCHANGED <<store, failing, backendDup, menu, allResp, allScanned, firstResp, concat, nfollow>>

ClientFirst ==
  /\ UNCHANGED aside
  /\ phase = "all"
  /\ pc = "done"
  /\ allResp' = resp
  /\ allScanned' = scanned
  /\ req' = [req EXCEPT !.all = ""]
  /\ phase' = "chain"
  /\ StartHandler
  /\ UNCHANGED <<store, failing, backendDup, menu, firstResp, concat, nfollow>>

ClientFollow ==
  /\ UNCHANGED aside
  /\ phase = "chain"
  /\ pc = "done"
  /\ resp.status = 200
  /\ resp.body.hasMore
  /\ nfollow < MaxFollow
  /\ concat' = concat \o scanned
  /\ nfollow' = nfollow + 1
  /\ req' = [req EXCEPT !.pageToken = Coalesce(resp.body.nextPageToken, Str(0)),
                        !.pageCursor = Coalesce(resp.body.nextPageCursor, NoCursor)]
  /\ StartHandler
  /\ UNCHANGED <<store, failing, backendDup, menu, phase, allResp, allScanned, firstResp>>

ClientProbe ==
  /\ UNCHANGED aside
  /\ phase = "chain"
  /\ pc = "done"
  /\ nfollow = 0
  /\ firstResp' = resp
  /\ phase' = "probe"
  /\ IF ScopeOf(req) = "single"
       THEN \E tok \in ProbeTokens : req' = [req EXCEPT !.pageToken = tok]
       ELSE \E c \in ProbeCursors : req' = [req EXCEPT !.pageCursor = c]
  /\ StartHandler
  /\ UNCHANGED <<store, failing, backendDup, menu, allResp, allScanned, concat, nfollow>>

\* the client of the handler of one collection asks for the next page with
\* the nextPageToken it was given
ClientFollowToken ==
  /\ UNCHANGED aside
  /\ phase = "chain"
  /\ pc = "done"
  /\ resp.status = 200
  /\ resp.body.hasMore
  /\ nfollow < MaxFollow
  /\ concat' = concat \o scanned
  /\ nfollow' = nfollow + 1
  /\ req' = [req EXCEPT !.pageToken = resp.body.nextPageToken]
  /\ StartHandler
  /\ UNCHANGED <<store, failing, backendDup, menu, phase, allResp, allScanned, firstResp>>

\* the text filters a client adds to a request it has sent without one
RefilterInputs(m) == IF m = "scenario30" THEN {6} ELSE {6, 7}

\* the same single-page request once more, with a text filter
ClientRefilter ==
  /\ UNCHANGED aside
  /\ phase = "chain"
  /\ pc = "done"
  /\ nfollow <= 1
  /\ req.q = 0
  /\ firstResp' = resp
  /\ phase' = "refilter"
  /\ \E n \in RefilterInputs(menu) : req' = [req EXCEPT !.q = n]
  /\ StartHandler
  /\ UNCHANGED <<store, failing, backendDup, menu, allResp, allScanned, concat, nfollow>>

\* a request with no query parameters
IdleRequest ==
  [method |-> "GET", variant |-> "users", pageSize |-> Missing, sortField |-> "",
   sortDir |-> "", scope |-> "", q |-> 0, all |-> "", pageToken |-> Str(0),
   pageCursor |-> NoCursor, publicDocId |-> ""]

\* the methods a client sends
Methods == {"GET", "OPTIONS", "POST", "PUT", "DELETE", "HEAD", "get"}

\* faulty variant: HEAD is handled as GET is
RouteHeadAsGet(method) ==
  IF method = "OPTIONS" THEN "preflight"
  ELSE IF method \notin {"GET", "HEAD"} THEN "reject"
  ELSE "handle"

\* applyCors and the method test that open the handler: an OPTIONS request
\* is answered by applyCors, any other method than GET is refused, a GET
\* goes on to the try block
Route(method) ==
  IF method = "OPTIONS" THEN "preflight"
  ELSE IF method # "GET" THEN "reject"
  ELSE "handle"

\* res.status(204).end() and res.status(405).json({error: ...})
Preflight == [status |-> 204, body |-> [error |-> ""]]
MethodNotAllowed == [status |-> 405, body |-> [error |-> "method_not_allowed"]]

\* A request with another method than GET arrives: the handler returns
\* before its try block unless the method is routed to it.
ClientOther ==
  /\ UNCHANGED aside
  /\ phase = "start"
  /\ pc = "idle"
  /\ phase' = "other"
  /\ \E m \in Methods \ {"GET"}, v \in Variants :
       /\ req' = [IdleRequest EXCEPT !.method = m, !.variant = v]
       /\ IF Route(m) = "handle"
            THEN StartHandler
            ELSE /\ pc' = "done"
                 /\ resp' = IF Route(m) = "preflight" THEN Preflight
                            ELSE MethodNotAllowed
                 /\ UNCHANGED <<items, scanned, cursorDoc, cursorVals, pageIndex, fault,
                                nextPageToken, nextPageCursor>>
  /\ UNCHANGED <<store, failing, backendDup, menu, allResp, allScanned, firstResp, concat,
                 nfollow>>

\* ------------------------------------------------------------------------
\* GET /api/agendamentos
\* ------------------------------------------------------------------------
\* normalizeDate: a Timestamp becomes an ISO string, a string stays, anything
\* else is null
normalizeDate(val) ==
  IF ~ Truthy(val) THEN NullV
  ELSE IF val.t = "timestamp" THEN IsoStr(val.v)
  ELSE IF val.t = "string" THEN val
  ELSE NullV

\* the items of the agendamentos response: every document of the
\* collection, its data and the two dates normalized
AgendamentosItems ==
  [i \in 1..Cardinality(Agendamentos) |->
     LET data == CHOOSE a \in Agendamentos : a.k = i
     IN  [id |-> Str(data.k), idsAlunos |-> data.idsAlunos,
          dataAgendamento |-> normalizeDate(Missing),
          timestampCriacao |-> normalizeDate(Missing)]]

\* what the try block of the agendamentos handler throws: getAdminDb when
\* the store cannot be reached, agendamentosRef.get() when the query fails
AgendamentosFault(fails) ==
  IF "connect" \in fails \/ "page1" \in fails THEN "store" ELSE ""

\* error.message of what was thrown
MessageOf(thrown) == <<"message of the error", thrown>>

\* the catch of the agendamentos handler
AgendamentosError(thrown) ==
  [status |-> 500, body |-> [error |-> "server_error", message |-> MessageOf(thrown)]]

\* a request to /api/agendamentos arrives
ClientAgendamentos ==
  /\ UNCHANGED aside
  /\ phase = "start"
  /\ pc = "idle"
  /\ phase' = "agenda"
  /\ \E m \in Methods :
       /\ req' = [IdleRequest EXCEPT !.method = m, !.variant = "agendamentos"]
       /\ IF Route(m) = "handle"
            THEN pc' = "agenda" /\ UNCHANGED resp
            ELSE /\ pc' = "done"
                 /\ resp' = IF Route(m) = "preflight" THEN Preflight
                            ELSE MethodNotAllowed
  /\ UNCHANGED <<store, failing, backendDup, menu, items, scanned, cursorDoc, cursorVals,
                 pageIndex, fault, nextPageToken, nextPageCursor, allResp, allScanned,
                 firstResp, concat, nfollow>>

\* the try block of the agendamentos handler and its catch
FetchAgendamentos ==
  /\ UNCHANGED aside
  /\ pc = "agenda"
  /\ pc' = "done"
  /\ LET thrown == AgendamentosFault(failing)
     IN  /\ fault' = thrown
         /\ resp' = IF thrown # "" THEN AgendamentosError(thrown)
                    ELSE [status |-> 200,
                          body |-> [items |-> AgendamentosItems,
                                    total |-> Len(AgendamentosItems)]]
  /\ UNCHANGED <<store, failing, backendDup, menu, req, items, scanned, cursorDoc,
                 cursorVals, pageIndex, nextPageToken, nextPageCursor, phase, allResp,
                 allScanned, firstResp, concat, nfollow>>

\* Another writer adds a record to the users collections, or removes one
\* (also the record a page ended on), between two page queries of an
\* accumulate-all scan.
Churn ==
  /\ UNCHANGED aside
  /\ phase = "all"
  /\ pc = "scan"
  /\ Len(scanned) > 0
  /\ \E p \in Paths :
       \E d \in {NoDoc} \cup {DocAt(p, ca) : ca \in CreatedAtValues} :
         /\ d.exists # store[p].exists
         /\ store' = [store EXCEPT ![p] = d]
  /\ UNCHANGED <<failing, backendDup, menu, req, pc, items, scanned, cursorDoc, cursorVals,
                 pageIndex, fault, nextPageToken, nextPageCursor, resp, phase, allResp,
                 allScanned, firstResp, concat, nfollow>>


\* ------------------------------------------------------------------------
\* The admin module: getAdminDb
\* ------------------------------------------------------------------------
\* the requests that may hold or await a connection at one time
MaxCallers == 3
Callers == 1..MaxCallers

\* getAdminDb of admin.js:5 reads SA_KEY; initAdmin of admin.js:35 reads
\* FIREBASE_SERVICE_ACCOUNT or else the three separate variables
AdminModules == {"SA_KEY", "initAdmin"}

\* What an environment variable that should hold a service account as
\* JSON holds: nothing, text that is no JSON, the JSON null, a JSON object
\* that is no service account, a service account.
JsonValues == {"unset", "notjson", "null", "object", "account"}

\* FIREBASE_PROJECT_ID, FIREBASE_CLIENT_EMAIL, FIREBASE_PRIVATE_KEY: one of
\* them unset, all set with a key that is no private key, all set
SeparateValues == {"unset", "badkey", "set"}

Environments ==
  [module : {"SA_KEY"}, SA_KEY : JsonValues,
   FIREBASE_SERVICE_ACCOUNT : {"unset"}, separate : {"unset"}, PUBLIC_DOC_ID : {""}]
  \cup
  [module : {"initAdmin"}, SA_KEY : {"unset"},
   FIREBASE_SERVICE_ACCOUNT : JsonValues, separate : SeparateValues,
   PUBLIC_DOC_ID : {""}]

\* JSON.parse throws on text that is no JSON
ParseThrows(v) == v = "notjson"

\* reading serviceAccount.private_key throws when JSON.parse gave null
PrivateKeyThrows(v) == v = "null"

\* cert throws unless it is given a service account
CertThrows(v) == v # "account"

\* whether the first call of getAdminDb throws before initializeApp
InitThrows(e) ==
  IF e.module = "SA_KEY"
    THEN \/ e.SA_KEY = "unset"
         \/ ParseThrows(e.SA_KEY)
         \/ CertThrows(e.SA_KEY)
    ELSE IF e.FIREBASE_SERVICE_ACCOUNT # "unset"
           THEN \/ ParseThrows(e.FIREBASE_SERVICE_ACCOUNT)
                \/ PrivateKeyThrows(e.FIREBASE_SERVICE_ACCOUNT)
                \/ CertThrows(e.FIREBASE_SERVICE_ACCOUNT)
           ELSE \/ e.separate = "unset"
                \/ e.separate = "badkey"

\* faulty variant: the registry of apps is not consulted
HasAppUnchecked(registry) == FALSE

\* getApps().length
HasApp(registry) == Len(registry) > 0

NoHandle == [t |-> "none", app |-> 0]
Threw == [t |-> "threw", app |-> 0]
\* getFirestore(): a handle on the default app, the first one registered
Firestore(registry) == [t |-> "db", app |-> 1]

\* One call of getAdminDb, by a request that has no handle yet. The call is
\* synchronous: nothing else runs between its test of getApps() and its
\* initializeApp.
GetAdminDb ==
  /\ \E c \in Callers :
       /\ handle[c] = NoHandle
       /\ IF HasApp(apps)
            THEN /\ handle' = [handle EXCEPT ![c] = Firestore(apps)]
                 /\ UNCHANGED apps
            ELSE IF InitThrows(env)
              THEN /\ handle' = [handle EXCEPT ![c] = Threw]
                   /\ UNCHANGED apps
              ELSE /\ apps' = Append(apps, [name |-> "[DEFAULT]", module |-> env.module])
                   /\ handle' = [handle EXCEPT ![c] = Firestore(apps')]
  /\ UNCHANGED <<env, other, statVars, sessionVars>>

\* a request ends (answered 200 or 500); its place is free for another
RequestEnds ==
  /\ \E c \in Callers :
       /\ handle[c] # NoHandle
       /\ handle' = [handle EXCEPT ![c] = NoHandle]
  /\ UNCHANGED <<env, apps, other, statVars, sessionVars>>

\* ------------------------------------------------------------------------
\* Two requests at the same time
\* ------------------------------------------------------------------------
\* an invocation of the handler for request r, at the start of its try
Invoked(r) ==
  [req |-> r, pc |-> "scan", items |-> <<>>, scanned |-> <<>>, cursorDoc |-> NoSnapshot,
   cursorVals |-> NullV, pageIndex |-> 0, fault |-> "", nextPageToken |-> NullV,
   nextPageCursor |-> NullV, resp |-> NoResp]

\* no second invocation
NoInvocation == [Invoked(IdleRequest) EXCEPT !.pc = "idle"]

\* faulty variant: items is declared outside the handler, one array for
\* every invocation
LocalsSharingItems(h) == [h EXCEPT !.items = items]

\* what an invocation works on: the handler declares items, the cursors
\* and the page counters inside its body, one set for each invocation
LocalsOf(h) == h

\* the requests that arrive in pairs
PairRequests ==
  [method : {"GET"},
   variant : Variants,
   pageSize : {NumV(1)},
   sortField : {"__name__", "createdAt"},
   sortDir : {"asc"},
   scope : ScopeInputs,
   q : QInputs,
   all : {"", "1"},
   pageToken : {Str(0)},
   pageCursor : {NoCursor},
   publicDocId : {""}]

\* two requests arrive before either has been answered
ClientPair ==
  /\ phase = "start"
  /\ pc = "idle"
  /\ phase' = "pair"
  /\ \E r1, r2 \in PairRequests :
       /\ req' = r1
       /\ other' = Invoked(r2)
  /\ StartHandler
  /\ UNCHANGED <<store, failing, backendDup, menu, allResp, allScanned, firstResp, concat,
                 nfollow, adminVars, statVars>>

\* one page of the second invocation
OtherFetchPage ==
  /\ other.pc = "scan"
  /\ \E dup \in DupChoices(other, backendDup) :
       /\ backendDup' = dup
       /\ other' = PageStep(LocalsOf(other), failing, dup)
  /\ UNCHANGED <<store, failing, menu, req, pc, items, scanned, cursorDoc, cursorVals,
                 pageIndex, fault, nextPageToken, nextPageCursor, resp, phase, allResp,
                 allScanned, firstResp, concat, nfollow, adminVars, statVars>>

\* the response of the second invocation
OtherRespond ==
  /\ other.pc = "respond"
  /\ other' = [other EXCEPT !.resp = [status |-> 200, body |-> PayloadFor(LocalsOf(other))],
                            !.pc = "done"]
  /\ UNCHANGED <<sessionVars, adminVars, statVars>>

\* ------------------------------------------------------------------------
\* The mapping of a page, one query at a time
\* ------------------------------------------------------------------------
\* no result yet for any of the three queries of a record
NoneGot == [query \in AuxQueries |-> -1]

\* no page is being mapped
NoMapping == [docs |-> <<>>, next |-> 0, got |-> NoneGot]

\* Promise.all([...get(), ...get(), ...get()]): the three queries of the
\* record mapped n-th in the request are issued together
Issue(n) == {<<n, query>> : query \in AuxQueries}

\* the record mapDocToUser returns for doc when fetchStatsForUser gave st
UserWith(doc, st) ==
  [mapDocToUser({}, doc) EXCEPT !.agCount = st.agCount, !.histTotal = st.histTotal,
                                !.histPend = st.histPend]

\* what fetchStatsForUser returns once its Promise.all has settled: the
\* sizes if all three were fulfilled, the initial zeros if one was rejected
StatsGiven(rejected, got) ==
  IF rejected
    THEN [agCount |-> NumV(0), histTotal |-> NumV(0), histPend |-> NumV(0)]
    ELSE [agCount |-> NumV(got["ag"]), histTotal |-> NumV(got["histAll"]),
          histPend |-> NumV(got["histPend"])]

\* The page query settles. If it failed or is empty the handler goes on as
\* in PageStep; otherwise the for loop starts and mapDocToUser issues the
\* three queries of the first document.
PageArrives ==
  /\ pc = "scan"
  /\ \E dup \in DupChoices(Self, backendDup) :
       /\ backendDup' = dup
       /\ LET q == PageQueryFor(Self)
              thrown == FaultOf(failing, req, q, dup, pageIndex + 1)
          IN  IF thrown # "" \/ Len(GetDocs(q)) = 0
                THEN \E n \in {PageStep(Self, failing, dup)} :
                       /\ pc' = n.pc
                       /\ fault' = n.fault
                       /\ resp' = n.resp
                       /\ nextPageToken' = n.nextPageToken
                       /\ nextPageCursor' = n.nextPageCursor
                       /\ UNCHANGED <<mapping, inflight>>
                ELSE /\ pc' = "map"
                     /\ mapping' = [docs |-> GetDocs(q), next |-> 1, got |-> NoneGot]
                     /\ inflight' = inflight \cup Issue(Len(items) + 1)
                     /\ UNCHANGED <<fault, resp, nextPageToken, nextPageCursor>>
  /\ UNCHANGED <<store, failing, menu, req, items, scanned, cursorDoc, cursorVals, pageIndex,
                 phase, allResp, allScanned, firstResp, concat, nfollow, adminVars, other>>

\* One auxiliary query settles, fulfilled or rejected. If the Promise.all
\* that holds it is still pending and this is its first rejection or its
\* last fulfilment, fetchStatsForUser returns, the record is pushed and the
\* loop goes on: the three queries of the next document, or the end of the
\* page as in PageStep. A query whose Promise.all has already settled is
\* left to settle unobserved.
StatSettles ==
  /\ \E x \in inflight :
       LET query == x[2]
           rejected == query \in failing
           awaited == pc = "map" /\ x[1] = Len(items) + 1
           doc == mapping.docs[mapping.next]
           got == [mapping.got EXCEPT ![query] = AuxSize(query, doc.ref[2])]
           returns == rejected \/ \A o \in AuxQueries : got[o] >= 0
           before == SubSeq(items, 1, Len(items) + 1 - mapping.next)
       IN  IF ~ awaited
             THEN /\ inflight' = inflight \ {x}
                  /\ UNCHANGED <<mapping, pc, items, scanned, cursorDoc, cursorVals,
                                 pageIndex, nextPageToken, nextPageCursor>>
           ELSE IF ~ returns
             THEN /\ inflight' = inflight \ {x}
                  /\ mapping' = [mapping EXCEPT !.got = got]
                  /\ UNCHANGED <<pc, items, scanned, cursorDoc, cursorVals, pageIndex,
                                 nextPageToken, nextPageCursor>>
           ELSE /\ items' = Append(items, UserWith(doc, StatsGiven(rejected, got)))
                /\ IF mapping.next < Len(mapping.docs)
                     THEN /\ mapping' = [mapping EXCEPT !.next = @ + 1, !.got = NoneGot]
                          /\ inflight' = (inflight \ {x}) \cup Issue(Len(items) + 2)
                          /\ UNCHANGED <<pc, scanned, cursorDoc, cursorVals, pageIndex,
                                         nextPageToken, nextPageCursor>>
                     ELSE \E n \in {PageStep([Self EXCEPT !.items = before], failing,
                                             backendDup)} :
                            /\ mapping' = NoMapping
                            /\ inflight' = inflight \ {x}
                            /\ pc' = n.pc
                            /\ scanned' = n.scanned
                            /\ cursorDoc' = n.cursorDoc
                            /\ cursorVals' = n.cursorVals
                            /\ pageIndex' = n.pageIndex
                            /\ nextPageToken' = n.nextPageToken
                            /\ nextPageCursor' = n.nextPageCursor
  /\ UNCHANGED <<store, failing, backendDup, menu, req, fault, resp, phase, allResp,
                 allScanned, firstResp, concat, nfollow, adminVars, other>>

\* the process before its first request, as deployed in the sessions of
\* one request
FreshProcess ==
  /\ apps = <<>>
  /\ handle = [c \in Callers |-> NoHandle]
  /\ other = NoInvocation
  /\ mapping = NoMapping
  /\ inflight = {}

\* the handler and its client before the first request
IdleSession ==
  /\ backendDup = "untested"
  /\ req = IdleRequest
  /\ pc = "idle"
  /\ items = <<>>
  /\ scanned = <<>>
  /\ cursorDoc = NoSnapshot
  /\ cursorVals = NullV
  /\ pageIndex = 0
  /\ fault = ""
  /\ nextPageToken = NullV
  /\ nextPageCursor = NullV
  /\ resp = NoResp
  /\ phase = "start"
  /\ allResp = NoResp
  /\ allScanned = <<>>
  /\ firstResp = NoResp
  /\ concat = <<>>
  /\ nfollow = 0

\* everything but the store, the failing queries and the requests on
\* offer, before the first request: a fresh process with SA_KEY set
Idle ==
  /\ env = [module |-> "SA_KEY", SA_KEY |-> "account",
            FIREBASE_SERVICE_ACCOUNT |-> "unset", separate |-> "unset",
            PUBLIC_DOC_ID |-> ""]
  /\ FreshProcess
  /\ IdleSession

\* any small dataset, every auxiliary query up
Init ==
  /\ store \in Stores
  /\ failing = {}
  /\ menu = "any"
  /\ Idle

\* the full small dataset, any combination of auxiliary queries failing
InitFanout ==
  /\ store \in {st \in Stores : \A p \in Paths : st[p].createdAt.t = "timestamp"}
  /\ failing \in SUBSET AuxQueries
  /\ menu = "any"
  /\ Idle

\* the full small dataset with timestamps, and at most one outage
InitOutage ==
  /\ store = [p \in Paths |-> DocAt(p, Ts(p[2]))]
  /\ failing \in {{}} \cup {{o} : o \in Outages}
  /\ menu = "any"
  /\ Idle

\* 30 records in the fixed collection (and maybe one elsewhere)
Init30 ==
  /\ store \in {[p \in ScenarioPaths |->
                  IF p[1] = "direct" THEN DocAt(p, Ts(p[2] % 3)) ELSE stray] :
                stray \in {NoDoc, DocAt(<<"public", 1>>, Ts(1))}}
  /\ failing \in {{}, {"ag"}}
  /\ menu = "scenario30"
  /\ Idle

\* two parents of ParentLen records each, all with a creation time, some
\* created at the same instant (within a parent and across the parents)
InitTwoParents ==
  /\ store \in {[p \in TwoParentPaths |-> DocAt(p, Ts((p[2] + shift) % 3))] :
                  shift \in 0..2}
  /\ failing = {}
  /\ menu = "twoparents"
  /\ Idle

\* one full dataset, requests with and without a path override, in a
\* process with and without PUBLIC_DOC_ID
InitOverride ==
  /\ store = [p \in Paths |-> DocAt(p, Ts(p[2]))]
  /\ failing = {}
  /\ menu = "override"
  /\ env \in {[module |-> "SA_KEY", SA_KEY |-> "account",
                FIREBASE_SERVICE_ACCOUNT |-> "unset", separate |-> "unset",
                PUBLIC_DOC_ID |-> d] : d \in PublicDocIds}
  /\ FreshProcess
  /\ IdleSession

\* one full dataset, first requests that carry cursors
InitCursors ==
  /\ store = [p \in Paths |-> DocAt(p, Ts(p[2]))]
  /\ failing = {}
  /\ menu = "cursors"
  /\ Idle

\* any small dataset, requests to the handler of one collection
InitNoScope ==
  /\ store \in Stores
  /\ failing = {}
  /\ menu = "noscope"
  /\ Idle

\* one full dataset, requests with parameters of every kind
InitParams ==
  /\ store = [p \in Paths |-> DocAt(p, Ts(p[2]))]
  /\ failing = {}
  /\ menu = "params"
  /\ Idle

\* more records in the fixed collection than MAX_PAGES pages of one, or a
\* collection of ShortLen records that a scan reads to its end
InitCeiling ==
  /\ \/ /\ store = [p \in CeilingPaths |->
                     IF p[1] = "direct" THEN EmptyDoc ELSE NoDoc]
        /\ menu = "ceiling"
     \/ /\ store = [p \in CeilingPaths |->
                     IF p \in ShortPaths THEN EmptyDoc ELSE NoDoc]
        /\ menu = "complete"
  /\ failing = {}
  /\ Idle

Next ==
  \/ ClientAll
  \/ ClientFirst
  \/ ClientFollow
  \/ ClientProbe
  \/ ClientRefilter
  \/ FetchPage
  \/ Respond

Spec == Init /\ [][Next]_vars

\* an accumulate-all scan over a collection that changes between its pages
NextChurn ==
  \/ ClientAll
  \/ FetchPage
  \/ Churn
  \/ Respond

SpecChurn == Init /\ [][NextChurn]_vars

\* a fresh process in any environment, and the calls of getAdminDb
InitAdmin ==
  /\ store = [p \in Paths |-> DocAt(p, Ts(p[2]))]
  /\ failing = {}
  /\ menu = "any"
  /\ IdleSession
  /\ FreshProcess
  /\ env \in Environments

\* one full dataset that does not change
InitPair ==
  /\ store = [p \in Paths |-> DocAt(p, Ts(p[2]))]
  /\ failing = {}
  /\ menu = "any"
  /\ env = [module |-> "SA_KEY", SA_KEY |-> "account",
            FIREBASE_SERVICE_ACCOUNT |-> "unset", separate |-> "unset",
            PUBLIC_DOC_ID |-> ""]
  /\ FreshProcess
  /\ IdleSession

NextPair ==
  \/ ClientPair
  \/ FetchPage
  \/ Respond
  \/ OtherFetchPage
  \/ OtherRespond

SpecPair == InitPair /\ [][NextPair]_vars

\* one request, its auxiliary queries settling one at a time in any order
NextStats ==
  \/ ClientAll
  \/ PageArrives
  \/ StatSettles
  \/ Respond

\* one full dataset, any combination of auxiliary queries failing
InitStats ==
  /\ store = [p \in Paths |-> DocAt(p, Ts(p[2]))]
  /\ failing \in SUBSET AuxQueries
  /\ menu = "any"
  /\ Idle

SpecStats == InitStats /\ [][NextStats]_vars

NextAdmin ==
  \/ GetAdminDb
  \/ RequestEnds

SpecAdmin == InitAdmin /\ [][NextAdmin]_vars

\* requests of every method
NextRouting ==
  \/ ClientAll
  \/ ClientOther
  \/ FetchPage
  \/ Respond

SpecRouting == InitParams /\ [][NextRouting]_vars

SpecFanout == InitFanout /\ [][Next]_vars

Spec30 == Init30 /\ [][Next]_vars

SpecParams == InitParams /\ [][Next]_vars

SpecTwoParents == InitTwoParents /\ [][Next]_vars

SpecOutage == InitOutage /\ [][Next]_vars

\* the two API handlers, with at most one outage
NextApi ==
  \/ ClientAll
  \/ ClientAgendamentos
  \/ FetchPage
  \/ FetchAgendamentos
  \/ Respond

SpecApi == InitOutage /\ [][NextApi]_vars

\* the handler of one collection and a client that follows its tokens
NextNoScope ==
  \/ ClientAll
  \/ ClientFirst
  \/ ClientFollowToken
  \/ FetchPage
  \/ Respond

SpecNoScope == InitNoScope /\ [][NextNoScope]_vars

SpecCursors == InitCursors /\ [][Next]_vars

SpecOverride == InitOverride /\ [][Next]_vars

SpecCeiling == InitCeiling /\ [][Next]_vars

\* ------------------------------------------------------------------------
\* Properties
\* ------------------------------------------------------------------------
\* the pages the client has received so far, concatenated
Pages == concat \o scanned

\* a single-page response has arrived in a chain of followed cursors
PageDone == phase = "chain" /\ pc = "done"
\* ... and it is the last of the chain
ChainDone == PageDone /\ resp.status = 200 /\ ~ resp.body.hasMore
\* the accumulate-all response has arrived
AllDone == phase = "all" /\ pc = "done"
\* the response to the client's own cursor has arrived
ProbeDone == phase = "probe" /\ pc = "done"

NoDuplicates(s) == \A i, j \in 1..Len(s) : s[i] = s[j] => i = j

\* the documents of the scope a request scans
ScopeDocs(r) ==
  {p \in DOMAIN store :
     store[p].exists /\ (ScopeOf(r) = "group" \/ p[1] = UsersColSingle(r))}

\* C1: following the cursors from no cursor until hasMore is false yields,
\* concatenated, exactly the records of one accumulate-all request with
\* the same parameters, with no duplicate and no skipped record.
C1_ResumeEqualsAccumulateAll ==
  /\ PageDone /\ resp.status = 200 => NoDuplicates(Pages)
  /\ ChainDone => allResp.status = 200 /\ Pages = allScanned

\* C2: for every sort field, every record of the scanned scope appears
\* exactly once in the pages (or in the accumulate-all result), also the
\* records that share a sort value and those that have none.
C2_EveryRecordExactlyOnce ==
  /\ AllDone /\ resp.status = 200 =>
       NoDuplicates(scanned) /\ {scanned[i] : i \in 1..Len(scanned)} = ScopeDocs(req)
  /\ ChainDone =>
       NoDuplicates(Pages) /\ {Pages[i] : i \in 1..Len(Pages)} = ScopeDocs(req)

\* C3: in both scopes a single-page response whose page query returned
\* fewer than pageSize records (also none) has hasMore = false and no
\* outgoing cursor.
C3_ShortPageHasNoMore ==
  (phase \in {"chain", "probe"} /\ pc = "done" /\ resp.status = 200
     /\ Len(scanned) < PageSizeOf(req))
  => /\ resp.body.hasMore = FALSE
     /\ resp.body.nextPageToken = NullV
     /\ resp.body.nextPageCursor = NullV

\* a short page reached by following a cursor, in the group scope
C3_Witness ==
  /\ PageDone /\ resp.status = 200 /\ nfollow > 0
  /\ ScopeOf(req) = "group"
  /\ Len(scanned) > 0 /\ Len(scanned) < PageSizeOf(req)

\* an empty page
C3_WitnessEmpty ==
  PageDone /\ resp.status = 200 /\ nfollow > 0 /\ Len(scanned) = 0

\* the ids of the records of a response body, in order
IdsOf(body) == [i \in 1..Len(body.items) |-> body.items[i].id.v]
\* the ids from hi down to lo
Descending(hi, lo) == [i \in 1..(hi - lo + 1) |-> hi + 1 - i]

\* C4 (as stated): 30 records, identity key descending, pageSize 10, scope
\* single: page 1 is the 10 highest ids with hasMore and the 10th id as
\* cursor, page 2 the next 10, page 3 the remaining 10 with hasMore false.
C4_ScenarioAsStated ==
  (menu = "scenario30" /\ PageDone) =>
    /\ resp.status = 200
    /\ nfollow = 0 => /\ IdsOf(resp.body) = Descending(30, 21)
                      /\ resp.body.hasMore
                      /\ resp.body.nextPageToken = Str(21)
    /\ nfollow = 1 => IdsOf(resp.body) = Descending(20, 11)
    /\ nfollow = 2 => /\ IdsOf(resp.body) = Descending(10, 1)
                      /\ ~ resp.body.hasMore

\* C4 (amended): pages 1, 2 and 3 are the ids 30..21, 20..11 and 10..1,
\* each with hasMore true and its last id as cursor; the page requested
\* with page 3's cursor is empty and has hasMore false.
C4_Scenario ==
  (menu = "scenario30" /\ PageDone) =>
    /\ resp.status = 200
    /\ nfollow \in 0..3
    /\ nfollow < 3 =>
         /\ IdsOf(resp.body) = Descending(30 - 10 * nfollow, 21 - 10 * nfollow)
         /\ scanned = [i \in 1..10 |-> <<"direct", 31 - 10 * nfollow - i>>]
         /\ resp.body.returnedCount = 10
         /\ resp.body.hasMore
         /\ resp.body.nextPageToken = Str(21 - 10 * nfollow)
    /\ nfollow = 3 =>
         /\ resp.body.items = <<>>
         /\ ~ resp.body.hasMore
         /\ resp.body.nextPageToken = NullV

\* the fourth page of the scenario has arrived
C4_Witness ==
  menu = "scenario30" /\ PageDone /\ nfollow = 3 /\ resp.status = 200

\* C5 (as stated): every 200 response, in every mode, has
\* returnedCount <= the pageSize it echoes.
C5_ReturnedCountAsStated ==
  (pc = "done" /\ resp.status = 200) => resp.body.returnedCount <= resp.body.pageSize

\* C5 (amended): every 200 response to a single-page request has
\* returnedCount <= the pageSize it echoes, in either scope, with or
\* without a text filter; an accumulate-all response returns every record
\* it scanned that passes the filter, however many.
C5_ReturnedCount ==
  (pc = "done" /\ resp.status = 200) =>
    /\ resp.body.returnedCount = Len(resp.body.items)
    /\ resp.body.pageSize = PageSizeOf(req)
    /\ resp.body.returnedCount <= Len(scanned)
    /\ ~ FetchAllOf(req) => resp.body.returnedCount <= resp.body.pageSize

\* a full single page, and a single page the text filter has thinned
C5_Witness ==
  /\ pc = "done" /\ resp.status = 200 /\ ~ FetchAllOf(req)
  /\ resp.body.returnedCount = resp.body.pageSize
  /\ resp.body.pageSize = MaxPageSize

C5_WitnessFiltered ==
  /\ pc = "done" /\ resp.status = 200 /\ ~ FetchAllOf(req)
  /\ Len(QTextOf(req)) > 0
  /\ resp.body.returnedCount < Len(scanned)

\* the stat an auxiliary query feeds
StatOf(query) ==
  IF query = "ag" THEN "agCount" ELSE IF query = "histAll" THEN "histTotal" ELSE "histPend"

\* C6: when exactly one of the three auxiliary queries fails, every record
\* is still returned, the stat of the failed query is 0 and the other two
\* stats are the sizes of their queries.
C6_OneFailureOneZero ==
  (pc = "done" /\ resp.status = 200 /\ Cardinality(failing) = 1) =>
    /\ Len(items) = Len(scanned)
    /\ \A i \in 1..Len(items) : \A query \in AuxQueries :
         items[i][StatOf(query)] =
           IF query \in failing THEN NumV(0) ELSE NumV(AuxSize(query, scanned[i][2]))

\* C7: whatever auxiliary queries fail, a request whose page queries
\* succeed completes with 200, every record of the page queries is in the
\* pre-filter result, in order, and the three stats of every record, there
\* and in the response, are non-negative integers.
C7_StatFailuresNeverAbort ==
  (pc = "done" /\ fault # "query") =>
    /\ resp.status = 200
    /\ fault = ""
    /\ Len(items) = Len(scanned)
    /\ \A i \in 1..Len(items) :
         /\ items[i].id = Str(scanned[i][2])
         /\ \A query \in AuxQueries :
              items[i][StatOf(query)].t = "number" /\ items[i][StatOf(query)].v \in Nat
    /\ \A i \in 1..Len(resp.body.items) : \A query \in AuxQueries :
         /\ resp.body.items[i][StatOf(query)].t = "number"
         /\ resp.body.items[i][StatOf(query)].v \in Nat

\* every auxiliary query fails and the scan returned two records or more
C7_Witness ==
  /\ pc = "done" /\ resp.status = 200
  /\ failing = AuxQueries
  /\ Len(items) >= 2

\* a pageCursor that is not the encoding of a payload the request can use
MalformedCursor(r, c) ==
  LET cur == decodeCursor(c)
  IN  \/ cur.t # "object"
      \/ ~ CursorUsable(r, cur)
      \/ ~ DbDocOk(cur.nameKey)

\* C8: in group scope a malformed pageCursor is treated as absent: the
\* response is 200 and is the response of the same request without cursor.
C8_MalformedCursorIgnored ==
  (ProbeDone /\ ScopeOf(req) = "group" /\ firstResp.status = 200
     /\ MalformedCursor(req, req.pageCursor))
  => resp.status = 200 /\ resp = firstResp

\* C9: the cursor a group page hands out decodes to the payload it was
\* encoded from, {sortVal, nameKey} of the last record of the page.
C9_CursorRoundTrip ==
  (PageDone /\ resp.status = 200 /\ ScopeOf(req) = "group"
     /\ Truthy(resp.body.nextPageCursor))
  => decodeCursor(resp.body.nextPageCursor)
       = CursorOfLast(req, SnapOf(scanned[Len(scanned)]))

\* the ordering of the single-scope page query
SingleOrders(r) == FullOrders(SingleQuery(r).orders)

\* C10: single scope, single page: a pageToken that names an existing
\* record gives a page of records strictly after it; one that names no
\* existing record is dropped, the response is 200 and is the response of
\* the same request without pageToken.
C10_PageToken ==
  (ProbeDone /\ ScopeOf(req) = "single" /\ firstResp.status = 200) =>
    LET col == UsersColSingle(req)
        tok == req.pageToken
        named == tok.v < 50 /\ <<col, tok.v>> \in DOMAIN store /\ store[<<col, tok.v>>].exists
        fo == SingleOrders(req)
    IN  IF named
          THEN /\ resp.status = 200
               /\ \A i \in 1..Len(scanned) :
                    CmpKeys(fo, DocKey(fo, scanned[i]), DocKey(fo, <<col, tok.v>>),
                            1, Len(fo)) > 0
          ELSE resp.status = 200 /\ resp = firstResp

\* a 200 response to a single-page request has arrived
SinglePageDone ==
  phase \in {"chain", "probe"} /\ pc = "done" /\ resp.status = 200 /\ ~ FetchAllOf(req)

\* the last record the page query returned
LastScanned == SnapOf(scanned[Len(scanned)])

\* C11: a single-page response carries an outgoing cursor exactly when the
\* page query returned pageSize records; in single scope it is the id of
\* the last record, in group scope it decodes to the path of the last
\* record as nameKey and, as sortVal, null when sorting by __name__ and
\* the last record's value of the sort field otherwise.
C11_OutgoingCursor ==
  SinglePageDone =>
    LET cursor == IF ScopeOf(req) = "single" THEN resp.body.nextPageToken
                  ELSE resp.body.nextPageCursor
    IN  /\ cursor # NullV <=> Len(scanned) = PageSizeOf(req)
        /\ (cursor # NullV /\ ScopeOf(req) = "single") =>
             cursor = Str(scanned[Len(scanned)][2])
        /\ (cursor # NullV /\ ScopeOf(req) = "group") =>
             /\ decodeCursor(cursor).nameKey = PathStr(scanned[Len(scanned)])
             /\ decodeCursor(cursor).sortVal =
                  IF SortFieldOf(req) = "__name__" THEN NullV
                  ELSE SnapGet(LastScanned, SortFieldOf(req))

\* the response to the request sent again with a text filter has arrived
RefilterDone == phase = "refilter" /\ pc = "done"

\* the cursors and hasMore of a response body
PagingOf(body) == <<body.hasMore, body.nextPageToken, body.nextPageCursor>>

\* C12: hasMore is true exactly when the response carries an outgoing
\* cursor, and two requests that differ only in q have the same status,
\* hasMore, nextPageToken and nextPageCursor, whatever the filter removes.
C12_FilterLeavesPagingAlone ==
  /\ (pc = "done" /\ resp.status = 200) =>
       resp.body.hasMore =
         (resp.body.nextPageToken # NullV \/ resp.body.nextPageCursor # NullV)
  /\ RefilterDone =>
       /\ resp.status = firstResp.status
       /\ resp.status = 200 =>
            /\ PagingOf(resp.body) = PagingOf(firstResp.body)
            /\ resp.body.pageSize = firstResp.body.pageSize
            /\ resp.body.returnedCount <= firstResp.body.returnedCount

\* a full page of which the filter keeps only a part, with hasMore true as
\* without the filter
C12_Witness ==
  /\ RefilterDone /\ resp.status = 200
  /\ Len(scanned) = PageSizeOf(req)
  /\ Len(scanned) = MaxPageSize
  /\ resp.body.returnedCount = 1
  /\ resp.body.hasMore /\ firstResp.body.hasMore

\* C13: when the trimmed, lower-cased q is not empty the response holds
\* exactly the mapped records of which the email, name, phone or source,
\* lower-cased and null read as empty, contains q, in scan order; when it
\* is empty the response holds every mapped record.
C13_PostFilter ==
  (pc = "done" /\ resp.status = 200) =>
    LET q == LowerText(Trim(TextOf(req.q)))
        Text(v) == LowerText(TextOf(IF v.t = "string" THEN v.v ELSE 0))
        Kept(u) == \/ Len(q) = 0
                   \/ \E f \in {"email", "name", "phone", "source"} : Includes(Text(u[f]), q)
        kept == SelectSeq(items, Kept)
    IN  /\ Len(resp.body.items) = Len(kept)
        /\ \A i \in 1..Len(kept) : resp.body.items[i] = projectUser(kept[i])

\* a filter with blanks around it that keeps some records and drops others
C13_Witness ==
  /\ pc = "done" /\ resp.status = 200 /\ req.q = 6
  /\ resp.body.returnedCount > 0
  /\ resp.body.returnedCount < Len(items)

\* a filter of blanks only keeps every record
C13_WitnessBlank ==
  /\ pc = "done" /\ resp.status = 200 /\ req.q = 7
  /\ resp.body.returnedCount = Len(items) /\ Len(items) > 0

\* the handler is about to issue a page query
Scanning == pc = "scan"

\* C14: the first ordering of every page query is the requested sort
\* field when it is one of createdAt, __name__, email, name, and __name__
\* when it is another value and when no sort field is supplied.
C14_SortPolicy ==
  Scanning =>
    PageQueryOf.orders[1][1] =
      IF req.sortField \in {"createdAt", "__name__", "email", "name"}
        THEN req.sortField ELSE "__name__"

\* C15: every ordering of every page query is ascending exactly when the
\* supplied sortDir is "asc" in any letter case, descending for any other
\* and for no value, and no sortDir value makes the request fail.
C15_SortDirection ==
  /\ Scanning =>
       \A i \in 1..Len(PageQueryOf.orders) :
         PageQueryOf.orders[i][2] =
           IF req.sortDir \in {"asc", "ASC", "Asc"} THEN "asc" ELSE "desc"
  /\ fault # "input"

\* the pageSize the claim expects of a request
ExpectedPageSize(r) ==
  IF r.pageSize.t \in {"number", "numprefix"}
    THEN (IF r.pageSize.v > 100 THEN 100 ELSE r.pageSize.v)
    ELSE 25

\* C16: the effective pageSize, which is the limit of every page query and
\* the pageSize the response echoes, is at most 100 whatever pageSize is
\* supplied, and is 25 when pageSize is absent or no integer.
C16_PageSizeClamp ==
  /\ Scanning =>
       /\ PageQueryOf.limit <= 100
       /\ PageQueryOf.limit = ExpectedPageSize(req)
  /\ (pc = "done" /\ resp.status = 200) =>
       /\ resp.body.pageSize <= 100
       /\ resp.body.pageSize = ExpectedPageSize(req)
       /\ ~ FetchAllOf(req) => Len(resp.body.items) <= 100

\* a request with a pageSize above the cap is answered with the cap
C16_Witness ==
  /\ pc = "done" /\ resp.status = 200
  /\ req.pageSize = NumV(PAGE_SIZE_CAP + 1)
  /\ resp.body.pageSize = PAGE_SIZE_CAP
  /\ Len(resp.body.items) > 0

\* a request with a pageSize that is no number is answered with the default
C16_WitnessDefault ==
  /\ pc = "done" /\ resp.status = 200
  /\ req.pageSize = Str(3)
  /\ resp.body.pageSize = DEFAULT_PAGE_SIZE

\* C17: whatever sortField string and pageSize value is supplied, every
\* page query orders by a whitelisted field with a limit in 1..100, and
\* the request is not answered with a failure (single scope, no cursor,
\* sortDir a string: nothing else of the request can fail).
C17_InputsNeverRejected ==
  (menu = "params" /\ phase = "all" /\ ScopeOf(req) = "single"
     /\ req.sortDir # RepeatedParam) =>
    /\ Scanning =>
         /\ PageQueryOf.orders[1][1] \in {"createdAt", "__name__", "email", "name"}
         /\ PageQueryOf.limit \in 1..100
    /\ pc = "done" => resp.status = 200

\* an accumulate-all request is being handled or has been answered
Accumulating == phase = "all" /\ pc # "idle"

\* C18: accumulate-all terminates in both scopes: a page query is issued
\* only when every page before it was full and fewer than MAX_PAGES
\* queries have been issued, every query that does not end the loop counts
\* towards MAX_PAGES, and no more than MAX_PAGES * pageSize records are
\* accumulated.
C18_AccumulateAllIsBounded ==
  /\ [](Accumulating =>
          /\ pageIndex <= MAX_PAGES
          /\ Len(scanned) <= MAX_PAGES * PageSizeOf(req)
          /\ Len(items) = Len(scanned)
          /\ Scanning => /\ pageIndex < MAX_PAGES
                         /\ Len(scanned) = pageIndex * PageSizeOf(req))
  /\ [][(Accumulating /\ Scanning) =>
          \/ pc' # "scan"
          \/ pageIndex' = pageIndex + 1]_vars

\* the loop has stopped at the ceiling with records left unread
C18_Witness ==
  /\ phase = "all" /\ pc = "respond"
  /\ pageIndex = MAX_PAGES
  /\ Len(scanned) = MAX_PAGES * PageSizeOf(req)
  /\ Cardinality(ScopeDocs(req)) > Len(scanned)

\* C19: a scan cut at the page ceiling is answered 200 with the records
\* accumulated so far, hasMore false and no cursor, as a complete scan is.
C19_CeilingGivesNoSignal ==
  (AllDone /\ fault = "") =>
    /\ resp.status = 200
    /\ PagingOf(resp.body) = <<FALSE, NullV, NullV>>
    /\ resp.body.returnedCount = Len(scanned)
    /\ IdsOf(resp.body) = [i \in 1..Len(scanned) |-> scanned[i][2]]

\* the answer to a scan cut at the ceiling
C19_Witness ==
  /\ AllDone /\ resp.status = 200
  /\ pageIndex = MAX_PAGES
  /\ resp.body.returnedCount = MAX_PAGES
  /\ Cardinality(ScopeDocs(req)) > MAX_PAGES

\* C20: whatever is thrown on the way to a page (no store connection, the
\* pageToken lookup failing, the first or a later page query failing) is
\* answered 500 with the body {error: "server_error"} and no items, also
\* when earlier pages were accumulated; a 200 is sent only when nothing
\* was thrown.
C20_FatalErrorsNoPartialPage ==
  pc = "done" =>
    /\ fault # "" <=> resp.status = 500
    /\ fault = "" <=> resp.status = 200
    /\ resp.status = 500 =>
          /\ resp.body = [error |-> "server_error"]
          /\ "items" \notin DOMAIN resp.body
    /\ "connect" \in failing => fault = "store" /\ items = <<>>
    /\ "page1" \in failing => fault # "" /\ items = <<>>
    /\ ("lookup" \in failing /\ LooksUp(req)) => fault # "" /\ items = <<>>
    /\ ("page2" \in failing /\ FetchAllOf(req) /\ resp.status = 200) =>
          Len(scanned) < PageSizeOf(req)

\* the second page query of an accumulate-all scan has failed after the
\* first page was accumulated
C20_Witness ==
  /\ pc = "done" /\ fault = "store" /\ "page2" \in failing
  /\ FetchAllOf(req) /\ Len(items) > 0
  /\ resp.status = 500

\* the pageToken lookup has failed
C20_WitnessLookup ==
  /\ pc = "done" /\ fault = "store" /\ "lookup" \in failing /\ LooksUp(req)
  /\ resp.status = 500

\* the fields of the public projection
PublicFields ==
  {"id", "email", "name", "phone", "source", "createdAt", "agCount", "histTotal",
   "histPend", "type", "polo"}

\* C22: every item of a successful response has exactly the public fields,
\* each with a value; a stored field that mapDocToUser copied into the
\* intermediate record is not in the response.
C22_OnlyPublicFields ==
  (pc = "done" /\ resp.status = 200) =>
    \A i \in 1..Len(resp.body.items) :
      /\ DOMAIN resp.body.items[i] = PublicFields
      /\ \A f \in PublicFields : resp.body.items[i][f] # Missing

\* a response whose intermediate records carried a stored field that is
\* not public
C22_Witness ==
  /\ pc = "done" /\ resp.status = 200
  /\ Len(resp.body.items) > 0
  /\ \E i \in 1..Len(items) :
        /\ "internal" \in DOMAIN items[i] /\ items[i]["internal"] # Missing
        /\ \E j \in 1..Len(resp.body.items) : resp.body.items[j].id = items[i].id

\* C30: the group query is ordered by the sort field and, if and only if
\* the sort field is not __name__, additionally by __name__ in the same
\* direction; when the sort field is __name__ there is exactly one clause.
C30_GroupQueryOrdering ==
  (Scanning /\ ScopeOf(req) = "group" /\ fault = "") =>
    LET sortField == SortFieldOf(req)
        sortDir == SortDirOf(req)
    IN  GroupQuery(req).orders =
          IF sortField = "__name__" THEN << <<"__name__", sortDir>> >>
          ELSE << <<sortField, sortDir>>, <<"__name__", sortDir>> >>

\* whether a is b with some members left out
RECURSIVE IsSubseq(_, _)
IsSubseq(a, b) ==
  IF Len(a) = 0 THEN TRUE
  ELSE IF Len(b) = 0 THEN FALSE
  ELSE IF a[1] = b[1] THEN IsSubseq(Tail(a), Tail(b))
  ELSE IsSubseq(a, Tail(b))

\* the public records of the documents the page queries returned, in the
\* order the pages were fetched
PageRecords ==
  [i \in 1..Len(scanned) |-> projectUser(mapDocToUser(failing, SnapOf(scanned[i])))]

\* C25: the items of a response are the results of its page queries in
\* the order fetched, with some left out by the filter and none moved or
\* merged; with an empty filter they are exactly those results.
C25_NoReorderNoDedup ==
  (pc = "done" /\ resp.status = 200) =>
    /\ IsSubseq(resp.body.items, PageRecords)
    /\ Len(QTextOf(req)) = 0 => resp.body.items = PageRecords

\* a filtered accumulate-all response of several pages that keeps two
\* records and leaves one out
C25_Witness ==
  /\ AllDone /\ resp.status = 200
  /\ Len(QTextOf(req)) > 0
  /\ Len(scanned) > PageSizeOf(req)
  /\ Len(resp.body.items) >= 2
  /\ Len(resp.body.items) < Len(scanned)

\* whether record a stands strictly before record b in the order of
\* request r: by the sort field, then by the document name, both in the
\* direction of r
StrictlyBefore(r, a, b) ==
  LET sortDir == SortDirOf(r)
      orders == << <<SortFieldOf(r), sortDir>>, <<"__name__", sortDir>> >>
  IN  CmpKeys(orders, DocKey(orders, a), DocKey(orders, b), 1, 2) < 0

InSortOrder(r, s) ==
  \A i, j \in 1..Len(s) : i < j => StrictlyBefore(r, s[i], s[j])

\* C24: in an accumulate-all result and in the concatenation of the pages
\* obtained by following cursors, any record placed before another has a
\* sort value not after it in the direction asked, and of two records
\* that share the value the one with the earlier name (id or path) comes
\* first, also across pages.
C24_SortOrderAcrossPages ==
  /\ (AllDone /\ resp.status = 200) => InSortOrder(req, scanned)
  /\ (PageDone /\ resp.status = 200) => InSortOrder(req, Pages)

\* C26: in group scope over two parents of 5 records each that all have
\* createdAt, a single-page request with sortField=createdAt and
\* pageSize=100 returns the 10 records in one page, ordered by creation
\* time then path, with hasMore false.
C26_TwoParents ==
  (menu = "twoparents" /\ PageDone /\ nfollow = 0
     /\ req.pageSize = NumV(PAGE_SIZE_CAP)) =>
    /\ resp.status = 200
    /\ resp.body.returnedCount = 2 * ParentLen
    /\ {scanned[i] : i \in 1..Len(scanned)} = TwoParentPaths
    /\ InSortOrder(req, scanned)
    /\ resp.body.items = PageRecords
    /\ PagingOf(resp.body) = <<FALSE, NullV, NullV>>

\* the response of the scenario, with records of both parents created at
\* the same instant
C26_Witness ==
  /\ menu = "twoparents" /\ PageDone /\ nfollow = 0
  /\ req.pageSize = NumV(PAGE_SIZE_CAP) /\ ScopeOf(req) = "group"
  /\ SortFieldOf(req) = "createdAt"
  /\ resp.status = 200 /\ Len(resp.body.items) = 2 * ParentLen
  /\ store[<<"direct", 1>>].createdAt = store[<<"public", 1>>].createdAt

\* C23: an accumulate-all scan over a collection to which records are
\* added and from which records are removed between its page queries
\* (also the record that ended the previous page) does not fail, goes on
\* from where the previous page ended, stays within the page ceiling and
\* is answered 200.
C23_ScanToleratesChurn ==
  /\ (Accumulating /\ Scanning /\ Len(scanned) > 0 /\ PageQueryOf.ok) =>
        Len(PageQueryOf.start) > 0
  /\ Accumulating => pageIndex <= MAX_PAGES
  /\ AllDone => resp.status = 200 /\ fault = ""

\* C21: a request whose method is neither GET nor OPTIONS is answered 405,
\* and a request with another method than GET never reaches the try block
\* of the handler, where the store connection is obtained and the page
\* queries are issued.
C21_OnlyGetIsHandled ==
  (pc # "idle" /\ req.method # "GET") =>
    /\ pc = "done"
    /\ fault = "" /\ pageIndex = 0 /\ scanned = <<>> /\ items = <<>>
    /\ IF req.method = "OPTIONS" THEN resp = Preflight ELSE resp = MethodNotAllowed

\* a POST and a HEAD have been refused
C21_Witness ==
  /\ phase = "other" /\ pc = "done"
  /\ req.method \in {"POST", "HEAD"}
  /\ resp.status = 405

\* whether the environment holds what the admin module needs
ConfigValid(e) ==
  IF e.module = "SA_KEY" THEN e.SA_KEY = "account"
  ELSE \/ e.FIREBASE_SERVICE_ACCOUNT = "account"
       \/ e.FIREBASE_SERVICE_ACCOUNT = "unset" /\ e.separate = "set"

\* C27: over any sequence of getAdminDb calls by interleaved requests the
\* app is initialised at most once, every call after that returns a handle
\* on that one app, and a call that finds the configuration missing or
\* invalid throws and registers no app.
C27_FirstUseSingleton ==
  /\ [](/\ Len(apps) <= 1
        /\ \A c \in Callers :
             /\ handle[c].t = "db" => Len(apps) = 1 /\ handle[c].app = 1
             /\ handle[c].t = "threw" => ~ ConfigValid(env) /\ apps = <<>>
        /\ ~ ConfigValid(env) => apps = <<>> /\ \A c \in Callers : handle[c].t # "db")
  /\ [][/\ apps' # apps => apps = <<>> /\ Len(apps') = 1
         /\ \A c \in Callers :
              (handle[c] = NoHandle /\ handle'[c] # NoHandle) =>
                handle'[c].t = IF ConfigValid(env) THEN "db" ELSE "threw"]_vars

\* three requests hold a handle and the app was initialised by the first
C27_Witness ==
  /\ Len(apps) = 1
  /\ \A c \in Callers : handle[c].t = "db"
  /\ env.module = "initAdmin"

\* every request of a process without configuration has seen a throw
C27_WitnessThrows ==
  /\ apps = <<>>
  /\ \A c \in Callers : handle[c].t = "threw"

\* the invocation h run to its response with no other request in the
\* process, the backend taking doubled orderings as `dup` says
RECURSIVE RunAlone(_, _)
RunAlone(h, dup) ==
  IF h.pc = "scan" THEN RunAlone(PageStep(h, failing, dup), dup)
  ELSE IF h.pc = "respond" THEN [status |-> 200, body |-> PayloadFor(h)]
  ELSE h.resp

\* the doubled ordering has met the backend, or no query of the pair has
\* one
Settled(dup) == backendDup \in {"untested", dup}

\* C28: when two requests are handled at the same time, their page
\* queries interleaved in any order over a static dataset, each response is
\* the response the same request gets when it is handled alone.
C28_RequestsDoNotInterfere ==
  phase = "pair" =>
    \A dup \in {"accepts", "rejects"} :
      Settled(dup) =>
        /\ pc = "done" => resp = RunAlone(Invoked(req), dup)
        /\ other.pc = "done" => other.resp = RunAlone(Invoked(other.req), dup)

\* two different accumulate-all requests of two pages and more, both
\* answered
C28_Witness ==
  /\ phase = "pair" /\ pc = "done" /\ other.pc = "done"
  /\ req # other.req
  /\ resp.status = 200 /\ other.resp.status = 200
  /\ Len(scanned) >= 2 /\ Len(other.scanned) >= 2

\* C29: within one request the three auxiliary queries of a record are
\* issued together, before any of them is awaited, and records are mapped
\* strictly one after another: at every moment at most three auxiliary
\* queries are outstanding, all of them for the same record, and the
\* queries of the next record and the next page query are issued only
\* after all three of the current record have settled.
C29_StatQueriesOneRecordAtATime ==
  /\ Cardinality(inflight) <= 3
  /\ \A x, y \in inflight : x[1] = y[1]
  /\ pc = "map" =>
       /\ \A x \in inflight : x[1] = Len(items) + 1
       /\ \A query \in AuxQueries :
            mapping.got[query] < 0 => <<Len(items) + 1, query>> \in inflight
  /\ pc \in {"scan", "respond", "done"} => inflight = {}

\* the mapping of a page one query at a time gives the records of
\* mapDocToUser
StepwiseMappingAgrees ==
  pc \in {"scan", "respond", "done"} =>
    items = [i \in 1..Len(scanned) |-> mapDocToUser(failing, SnapOf(scanned[i]))]

\* the cursor a group page query resumes from: the loop's cursorVals in
\* accumulate-all mode, the decoded pageCursor the client was given by the
\* previous page otherwise
ResumeCursor == IF FetchAllOf(req) THEN cursorVals ELSE decodeCursor(req.pageCursor)

\* a group page query is about to be issued from a resume position
GroupResumes ==
  /\ pc = "scan"
  /\ ScopeOf(req) = "group"
  /\ IF FetchAllOf(req) THEN Truthy(cursorVals)
     ELSE phase = "chain" /\ nfollow > 0 /\ Truthy(req.pageCursor)
          /\ HasKey(ResumeCursor, "sortVal") /\ HasKey(ResumeCursor, "nameKey")

\* C31: when a group query resumes from a cursor (an incoming cursor that
\* decodes, or the cursor kept between the iterations of accumulate-all),
\* the start-after position has as many values as the query has ordering
\* clauses: (sortVal, path) when the sort field is not the identity key,
\* the path alone when it is.
C31_GroupResumePosition ==
  GroupResumes =>
    LET q == PageQueryOf
        n == IF SortFieldOf(req) = "__name__" THEN 1 ELSE 2
    IN  /\ q.ok
        /\ Len(q.start) = n
        /\ Len(q.orders) = n
        /\ q.start[n] = DbDoc(ResumeCursor.nameKey)
        /\ n = 2 => q.start[1] = Coalesce(ResumeCursor.sortVal, NullV)

\* the text filters a scan is compared under: none, "a", " AB ", "b"
FilterProbes == QInputs \cup {2, 8}

\* C32: the text filter is applied only after the scan and never steers it:
\* in accumulate-all mode every page query, its resume position and the
\* locals after the page (the records accumulated, the cursor, the page
\* counter, whether the loop goes on) are the same for every value of q,
\* even when the filter removes every record of a page.
C32_FilterNeverSteersScan ==
  (pc = "scan" /\ FetchAllOf(req)) =>
    \A qq \in FilterProbes : \A dup \in DupChoices(Self, backendDup) :
      LET h == [Self EXCEPT !.req.q = qq]
      IN  /\ PageQueryFor(h) = PageQueryOf
          /\ PageStep(h, failing, dup) = [PageStep(Self, failing, dup) EXCEPT !.req.q = qq]

\* the scan goes on after a page of which the filter keeps no record
C32_Witness ==
  /\ pc = "scan"
  /\ FetchAllOf(req)
  /\ pageIndex >= 1
  /\ Len(items) > 0
  /\ Len(QTextOf(req)) > 0
  /\ FilterUsers(items, QTextOf(req)) = <<>>

\* C33: the path override selects the scanned collection only in single
\* scope. With scope=single and a publicDocId the page queries and the
\* pageToken lookup target artifacts/{artifactId}/public/{publicDocId}/users,
\* otherwise artifacts/{artifactId}/users; with scope=group the page is the
\* same for every publicDocId.
C33_PathOverrideOnlyInSingleScope ==
  pc = "scan" =>
    IF ScopeOf(req) = "single"
      THEN LET target == IF req.publicDocId # "" THEN "public" ELSE "direct"
           IN  /\ PageQueryOf.from = target
               /\ UsersColSingle(req) = target
      ELSE \A d \in PublicDocIds : \A dup \in DupChoices(Self, backendDup) :
             LET h == [Self EXCEPT !.req.publicDocId = d]
             IN  PageStep(h, failing, dup)
                   = [PageStep(Self, failing, dup) EXCEPT !.req.publicDocId = d]

\* request r without the cursor of the other scope's kind
WithoutForeignCursor(r) ==
  IF ScopeOf(r) = "single" THEN [r EXCEPT !.pageCursor = NoCursor]
  ELSE [r EXCEPT !.pageToken = Str(0)]

\* C34: the response carries only the cursor of its scope: nextPageToken
\* is non-null only with scope=single and nextPageCursor only with
\* scope=group, so at most one of them is non-null; and an incoming cursor
\* of the other scope's kind (pageCursor with scope=single, pageToken with
\* scope=group) has no effect on the response.
C34_CursorOfTheScopeOnly ==
  /\ (pc = "done" /\ resp.status = 200) =>
       /\ resp.body.nextPageToken # NullV => ScopeOf(req) = "single"
       /\ resp.body.nextPageCursor # NullV => ScopeOf(req) = "group"
       /\ resp.body.nextPageToken = NullV \/ resp.body.nextPageCursor = NullV
  /\ (pc = "done" /\ phase = "all") =>
       \A dup \in {"accepts", "rejects"} :
         Settled(dup) => resp = RunAlone(Invoked(WithoutForeignCursor(req)), dup)

\* a page of scope=single, asked for with a well-formed pageCursor, that
\* gives a nextPageToken
C34_Witness ==
  /\ pc = "done" /\ phase = "all"
  /\ resp.status = 200
  /\ ScopeOf(req) = "single"
  /\ req.pageCursor = encodeCursor(CursorObj(NullV, PathStr(<<"direct", 1>>)))
  /\ resp.body.nextPageToken # NullV
  /\ resp.body.nextPageCursor = NullV

\* request r without any incoming cursor
WithoutCursors(r) == [r EXCEPT !.pageToken = Str(0), !.pageCursor = NoCursor]

\* C35: with all=1 the incoming pageToken and pageCursor are ignored: the
\* scan starts from the beginning of the ordering and the response is the
\* same for every value of those parameters.
C35_AccumulateAllIgnoresCursors ==
  /\ (pc = "scan" /\ FetchAllOf(req) /\ Len(scanned) = 0 /\ pageIndex = 0) =>
       PageQueryOf.ok /\ PageQueryOf.start = <<>>
  /\ (pc = "done" /\ phase = "all" /\ FetchAllOf(req)) =>
       \A dup \in {"accepts", "rejects"} :
         Settled(dup) => resp = RunAlone(Invoked(WithoutCursors(req)), dup)

\* an accumulate-all request that names a record in its pageToken and gets
\* every record, that one included
C35_Witness ==
  /\ pc = "done" /\ phase = "all" /\ FetchAllOf(req)
  /\ resp.status = 200
  /\ ScopeOf(req) = "single"
  /\ req.pageToken = Str(1)
  /\ scanned = <<<<"direct", 1>>, <<"direct", 2>>>>

\* the number of records of the dataset in the scope of request r
RecordsInScope(r) ==
  Cardinality({p \in DOMAIN store :
                 /\ store[p].exists
                 /\ (ScopeOf(r) = "group" \/ p[1] = UsersColSingle(r))})

\* ceil(n / d)
CeilDiv(n, d) == (n + d - 1) \div d

\* C36: following cursors terminates. Over a static dataset of N records a
\* client that starts without a cursor and asks for the next page with the
\* cursor it was given while hasMore is true gets a response with
\* hasMore=false after at most ceil(N / pageSize) + 1 requests: every
\* response of the chain is a page, and one that still says hasMore=true
\* is not yet the last request the bound allows.
C36_FollowingCursorsTerminates ==
  (phase = "chain" /\ pc = "done") =>
    /\ resp.status = 200
    /\ resp.body.hasMore =>
         nfollow + 1 < CeilDiv(RecordsInScope(req), PageSizeOf(req)) + 1

\* C37: in the handler of one collection, which has no scope, hasMore is
\* false whenever the page query returns fewer than pageSize records, so a
\* client that follows nextPageToken over a static dataset never gets
\* hasMore=true for the final short page.
C37_NoScopeShortPageHasNoMore ==
  (req.variant = "part002" /\ pc = "done" /\ resp.status = 200 /\ ~ FetchAllOf(req)
     /\ Len(scanned) < PageSizeOf(req)) =>
    ~ resp.body.hasMore

\* C38: every failure response of the API handlers (users and
\* agendamentos) carries a single opaque error code: on a store or internal
\* error the body holds nothing derived from the underlying error.
C38_OpaqueErrorCode ==
  (pc = "done" /\ resp.status = 500) => resp.body = [error |-> "server_error"]

====
